---- MODULE Spec2Model ----
(***************************************************************************)
(* Model of multiyt-dlp's download orchestrator (src/src/downloads.py,     *)
(* DownloadManager) driven by the application controller                   *)
(* (src/src/controller.py, AppController).                                 *)
(*                                                                         *)
(* Threads of the program and how they appear here:                        *)
(*   - the main (UI/controller) thread: one handler at a time.  The short  *)
(*     handlers are one action each; stop_all_downloads is a sequence of   *)
(*     steps (mainpc) because download workers run while it executes.      *)
(*   - download workers (_worker_thread/_run_download_process): wpc[w].    *)
(*   - URL processors (_url_processor_worker): upc[u].                     *)
(*   - the URL-queue monitor threads of start_downloads: monitors.         *)
(* A step of a thread is one access to shared state (stop_event, a queue,  *)
(* a lock-protected table or counter, the event queue) together with the   *)
(* thread-local computation around it.                                     *)
(***************************************************************************)
EXTENDS Integers, Sequences, FiniteSets, TLC

\* ---------------------------------------------------------------- bounds
MaxConcurrent == 2   \* largest max_concurrent_downloads value that is configured
MaxJobs == 2         \* job ids (uuid4 values) ever created
MaxUrls == 1         \* URLs submitted by one start_downloads call
MaxCalls == 2        \* start / stop / retry / clear / save_settings calls of the user
MaxRestartCalls == 3 \* start / stop calls of the user in SpecRestart
MaxFfmpegCalls == 2  \* start / install / stop calls of the user in SpecFfmpeg
MaxPending == 1      \* events a background thread may find waiting in the event queue (Spec)
MaxLines == 1        \* stdout lines one yt-dlp process prints
MaxCloseUrls == 2    \* URLs submitted by the start_downloads call of SpecClose
MaxOutputLines == 2  \* lines of output of the process followed in SpecRun
MaxProgressLines == 3 \* lines of output of the process followed in SpecProgress
MaxExtraBytes == 9   \* SpecChunks: sizes up to this many bytes above the chunking threshold
MaxInstalls == 1     \* dependency installs that are started (SpecInstall)
MaxSettingsCalls == 2 \* save_settings calls and restarts of the program (SpecSettings)

Workers == 1..MaxConcurrent
UProcs == 1..(MaxRestartCalls * MaxUrls)
JobIds == 1..MaxJobs

\* ---------------------------------------------------------------- state
VARIABLES
    stop_event,             \* DownloadManager.stop_event
    job_queue,              \* DownloadManager.job_queue (sequence of job ids)
    url_processing_queue,   \* number of (url, options) items queued
    url_unfinished,         \* url_processing_queue.unfinished_tasks (put/task_done)
    completed_jobs,         \* DownloadManager.completed_jobs
    total_jobs,             \* DownloadManager.total_jobs
    active_processes,       \* job id -> handle; a handle is the worker that spawned it
    max_concurrent_downloads,
    wpc, wjob, wfinal, werr, wlines, wline,   \* download worker: position and locals
    proc,                   \* state of the process a worker spawned
    upc, ucount, uidx,      \* URL processor: position, video_count, loop index
    uowed,                  \* history: jobs a URL processor has counted in total_jobs
                            \* for its current URL, minus the jobs it has announced
    monitors,               \* monitor_url_queue threads blocked in join()
    mainpc,                 \* position of the main thread inside stop_all_downloads
    closing,                \* whether on_app_closing has been entered
    procs_to_terminate,     \* stop_all_downloads' snapshot still to be handled
    stop_log,               \* history: what the running stop_all_downloads did to the
                            \* entries of its snapshot it has handled
    gui_queue,              \* events emitted and not yet handled by the controller
    job_store,              \* AppController.job_store, in insertion order
    is_downloading,         \* AppController.is_downloading
    config_max,             \* Settings.max_concurrent_downloads
    ffmpeg_path,            \* whether DependencyManager.ffmpeg_path is known
    pending_download_task,  \* AppController.pending_download_task
    dm_options,             \* the options DownloadManager.start_downloads was last
                            \* called with (every URL and job of the session has them)
    synthetic,              \* ids of jobs created with empty options (line 210)
    nextId,                 \* next fresh job id
    doneLog,                \* history: statuses of the done events emitted per id
    donesSinceReset,        \* history: done events emitted since the counters were reset
    urlDoneEvents,          \* history: url_processing_done events emitted
    activeAtStop,           \* history: ids registered when stop was invoked
    callsLeft,              \* user calls still to be made (bounded)
    pendingLimit,           \* events a background thread may find waiting when it emits
    retry_call,             \* history: the last add_jobs_for_retry call, its argument and
                            \* whether it raised
    ipc,                    \* position of the dependency install thread
    idep,                   \* the dependency it installs: "yt-dlp" or "ffmpeg"
    dep_stop_event,         \* DependencyManager.stop_event
    canonical,              \* the files APP_PATH/yt-dlp and APP_PATH/ffmpeg
    archive,                \* the ffmpeg archive file in the install's temp directory
    srv,                    \* what the server of the install's URL does
    total_size,             \* content-length of the HEAD response (0: none)
    attempt,                \* loop variable of _download_file_single_stream
    bytes_downloaded,       \* bytes of the current response written (186, 192)
    fallback,               \* which download raised into the fallback (153-168)
    chunk_files,            \* chunk_0 .. chunk_i of _download_file_chunked's temp dir
    chunk_raised,           \* exceptions held by the futures of the chunk threads
    dep_result,             \* the dependency_done event of the last install
    dep_done,               \* history: the dependency_done events the install has put
    cancel_issued,          \* history: cancel_download was called since the request
    canon_before,           \* history: the canonical file when the install began
    stream_end,             \* history: how the transfers behind save_path ended
    installsLeft,           \* installs still to be started (bounded)
    stdout,                 \* the lines a yt-dlp process prints (_run_download_process)
    line_no,                \* number of lines read so far; past the end after process.wait()
    return_code,            \* process.wait()
    error_message,          \* the local error_message of _run_download_process
    final_status,           \* the local final_status of _run_download_process
    emitted,                \* history: the percentages of the update_job(progress)
                            \* events of the followed process, in tenths, in order
    filename_template,      \* Settings.filename_template
    config_file,            \* the configuration file (ConfigManager.config_path)
    stats_lock,             \* DownloadManager.stats_lock: the thread holding it, or Free
    active_processes_lock   \* DownloadManager.active_processes_lock: its holder, or Free

dmVars == <<stop_event, job_queue, url_processing_queue, url_unfinished, completed_jobs,
            total_jobs, active_processes, max_concurrent_downloads>>
wVars == <<wpc, wjob, wfinal, werr, wlines, wline, proc>>
uVars == <<upc, ucount, uidx, uowed>>
mainVars == <<mainpc, closing, procs_to_terminate, stop_log>>
ctlVars == <<job_store, is_downloading, config_max>>
histVars == <<doneLog, donesSinceReset, urlDoneEvents, activeAtStop>>
callVars == <<callsLeft, pendingLimit, retry_call>>
depVars == <<ffmpeg_path, pending_download_task, dm_options>>
cfgVars == <<filename_template, config_file>>
appVars == <<dmVars, wVars, uVars, mainVars, ctlVars, histVars, callVars, depVars,
             monitors, gui_queue, synthetic, nextId, cfgVars>>
instVars == <<ipc, idep, dep_stop_event, canonical, archive, srv, total_size, attempt,
              bytes_downloaded,
              fallback, chunk_files, chunk_raised, dep_result, dep_done, canon_before, stream_end,
              installsLeft, cancel_issued>>
runVars == <<stdout, line_no, return_code, error_message, final_status, emitted>>
lockVars == <<stats_lock, active_processes_lock>>
vars == <<appVars, instVars, runVars, lockVars>>

\* ---------------------------------------------------------------- helpers
Min(a, b) == IF a < b THEN a ELSE b

NoJob == 0

\* no add_jobs_for_retry call yet
NoRetryCall == [ids |-> <<>>, raised |-> FALSE, calls |-> 0]

\* dict helpers for active_processes (a function on a subset of JobIds)
EmptyDict == [x \in {} |-> 0]
DictDel(d, k) == [x \in (DOMAIN d) \ {k} |-> d[x]]
DictPut(d, k, v) == [x \in (DOMAIN d) \cup {k} |-> IF x = k THEN v ELSE d[x]]

\* events of the gui queue
AddJobEv(id, st, pr) == [type |-> "add_job", id |-> id, column |-> "", value |-> st, progress |-> pr]
UpdateEv(id, col, val) == [type |-> "update_job", id |-> id, column |-> col, value |-> val, progress |-> ""]
DoneEv(id, st) == [type |-> "done", id |-> id, column |-> "", value |-> st, progress |-> ""]

LogDone(log, id, st) == [log EXCEPT ![id] = Append(@, st)]

\* ---------------------------------------------------------------- statuses
TerminalStatuses == {"Completed", "Failed", "Failed: msg", "Cancelled", "Error", "Error: msg"}
AnyStatus == TerminalStatuses \cup {"Queued", "Downloading"}

\* the statuses of the jobs a retry is requested for ("Retry Failed Download(s)")
FailureStatuses == {"Failed", "Failed: msg", "Error", "Error: msg"}

\* the words of finished_statuses that occur in status.lower(); the statuses of a job
\* that is queued or running (Queued, Downloading, Merging..., Extracting Audio...,
\* Embedding..., Fixing M4a..., Writing Metadata...) contain none of them
KeywordsIn(st) ==
    CASE st = "Completed" -> {"completed"}
      [] st \in {"Failed", "Failed: msg"} -> {"failed"}
      [] st = "Cancelled" -> {"cancelled"}
      [] st \in {"Error", "Error: msg"} -> {"error"}
      [] OTHER -> {}

FinishedWithoutError == {"completed", "failed", "cancelled"}

\* controller.py 203
finished_statuses == {"completed", "failed", "cancelled", "error"}

\* controller.py 205: any(s in job.status.lower() for s in finished_statuses)
IsTerminal(st) == \E s \in finished_statuses : s \in KeywordsIn(st)

\* f"{percentage:.1f}%"
FormatProgress(pct) ==
    CASE pct = 25 -> "25.0%"
      [] pct = 75 -> "75.0%"
      [] pct = 100 -> "100.0%"
      [] OTHER -> "0.0%"

\* lines a yt-dlp process prints on stdout: `PROGRESS:: 100.0%` and `ERROR: msg`
Lines == {[kind |-> "progress", pct |-> 100], [kind |-> "error", pct |-> 0]}
NoLine == [kind |-> "none", pct |-> 0]

\* ---------------------------------------------------------------- process output
\* text is a sequence of characters
Rep(c, n) == [i \in 1..n |-> c]

Take(s, n) == SubSeq(s, 1, Min(n, Len(s)))

Drop(s, n) == SubSeq(s, n + 1, Len(s))

StartsWith(s, prefix) == Len(s) >= Len(prefix) /\ SubSeq(s, 1, Len(prefix)) = prefix

\* str.strip() for text whose only whitespace character is the blank
RECURSIVE LStrip(_)
LStrip(s) == IF s # <<>> /\ Head(s) = " " THEN LStrip(Tail(s)) ELSE s

RECURSIVE RStrip(_)
RStrip(s) == IF s # <<>> /\ s[Len(s)] = " " THEN RStrip(SubSeq(s, 1, Len(s) - 1)) ELSE s

Strip(s) == LStrip(RStrip(s))

ErrorPrefix == <<"E", "R", "R", "O", "R", ":">>
StatusCompleted == <<"C", "o", "m", "p", "l", "e", "t", "e", "d">>
StatusFailed == <<"F", "a", "i", "l", "e", "d">>
FailedPrefix == StatusFailed \o <<":", " ">>

\* downloads.py 356: error_message[:60]
ReasonLimit == 60

\* None, or a str
None == [none |-> TRUE, text |-> <<>>]
Str(s) == [none |-> FALSE, text |-> s]

\* the truth value Python gives to an Optional[str]
Truthy(v) == ~v.none /\ v.text # <<>>

\* downloads.py 321, 334: the error_message after one more line of output
ErrorAfterLine(message, line) ==
    LET clean_line == Strip(line)
    IN IF StartsWith(clean_line, ErrorPrefix)
       THEN Str(Strip(Drop(clean_line, Len(ErrorPrefix))))
       ELSE message

\* downloads.py 303, 355-356: final_status for a return code when no stop was signalled
StatusAfterWait(rc, message) ==
    IF rc = 0 THEN StatusCompleted
    ELSE IF Truthy(message) THEN FailedPrefix \o Take(message.text, ReasonLimit)
    ELSE StatusFailed

\* decimal digits and the number a run of digits denotes
Digits == <<"0", "1", "2", "3", "4", "5", "6", "7", "8", "9">>
IsDigit(c) == \E i \in DOMAIN Digits : Digits[i] = c
DigitVal(c) == (CHOOSE i \in DOMAIN Digits : Digits[i] = c) - 1

RECURSIVE IntVal(_)
IntVal(s) == IF s = <<>> THEN 0 ELSE IntVal(SubSeq(s, 1, Len(s) - 1)) * 10 + DigitVal(s[Len(s)])

\* the index after the digits that start at index i of s
RECURSIVE RunEnd(_, _)
RunEnd(s, i) == IF i <= Len(s) /\ IsDigit(s[i]) THEN RunEnd(s, i + 1) ELSE i

\* str.rstrip('%')
RECURSIVE RStripPercent(_)
RStripPercent(s) ==
    IF s # <<>> /\ s[Len(s)] = "%" THEN RStripPercent(SubSeq(s, 1, Len(s) - 1)) ELSE s

\* sub in s
HasSub(s, sub) == \E i \in 1..(Len(s) - Len(sub) + 1) : SubSeq(s, i, i + Len(sub) - 1) = sub

\* no percentage (percentage = None, or float raised ValueError)
NoPercentage == 0 - 1

\* float(text) for an unsigned decimal numeral, as the number of tenths that
\* f"{percentage:.1f}" prints (the second fractional digit rounds); any other text
\* raises ValueError
Float(text) ==
    LET t == Strip(text)
        e1 == RunEnd(t, 1)
        e2 == RunEnd(t, e1 + 1)
        frac == SubSeq(t, e1 + 1, e2 - 1)
        tenths(f) == IF f = <<>> THEN 0
                     ELSE DigitVal(f[1]) + (IF Len(f) > 1 /\ DigitVal(f[2]) >= 5 THEN 1 ELSE 0)
    IN IF e1 > 1 /\ e1 > Len(t) THEN IntVal(t) * 10
       ELSE IF e1 <= Len(t) /\ t[e1] = "." /\ e2 > Len(t) /\ (e1 > 1 \/ frac # <<>>)
       THEN IntVal(SubSeq(t, 1, e1 - 1)) * 10 + tenths(frac)
       ELSE NoPercentage

\* group 1 of re.search(r'(\d+\.?\d*)%', s), or <<>> when there is no match
PercentMatch(s) ==
    LET end(i) == LET e1 == RunEnd(s, i)
                      e2 == RunEnd(s, e1 + 1)
                  IN IF e1 <= Len(s) /\ s[e1] = "%" THEN e1
                     ELSE IF e1 <= Len(s) /\ s[e1] = "." /\ e2 <= Len(s) /\ s[e2] = "%" THEN e2
                     ELSE 0
        starts == {i \in DOMAIN s : IsDigit(s[i]) /\ end(i) > 0}
    IN IF starts = {} THEN <<>>
       ELSE LET i == CHOOSE k \in starts : \A m \in starts : k <= m
            IN SubSeq(s, i, end(i) - 1)

ProgressPrefix == <<"P", "R", "O", "G", "R", "E", "S", "S", ":", ":">>
DownloadTag == <<"[", "d", "o", "w", "n", "l", "o", "a", "d", "]">>

\* downloads.py 340-348: the percentage parsed from a line
Percentage(clean_line) ==
    IF StartsWith(clean_line, ProgressPrefix)
    THEN Float(RStripPercent(Strip(Drop(clean_line, Len(ProgressPrefix)))))
    ELSE IF HasSub(clean_line, DownloadTag)
    THEN (IF PercentMatch(clean_line) = <<>> THEN NoPercentage
          ELSE Float(PercentMatch(clean_line)))
    ELSE NoPercentage

\* downloads.py 322, 340-349: the update_job(progress) events after one more line
EmittedAfterLine(progress, line) ==
    LET p == Percentage(Strip(line))
    IN IF p = NoPercentage THEN progress ELSE Append(progress, p)

\* the lines of output that are tried: ERROR: lines with reasons of several lengths,
\* with and without blanks around the reason, and lines that are no ERROR: lines
ReasonLens == {0, 1, ReasonLimit, ReasonLimit + 1}
ErrorLines ==
    {ErrorPrefix \o Rep(" ", pad) \o Rep("x", n) \o Rep(" ", trail) :
        pad \in 0..1, n \in ReasonLens, trail \in 0..1}
OtherLines ==
    {<<"[", "d", "l", "]", " ", "5", "%">>,
     <<" ">> \o ErrorPrefix \o <<" ", "y">>,
     <<"W", ":", " ">> \o ErrorPrefix \o <<" ", "z">>}
OutputLines == ErrorLines \cup OtherLines
Outputs == UNION {[1..n -> OutputLines] : n \in 0..MaxOutputLines}
ReturnCodes == {0, 1, 2}

\* threads that take the locks: the main thread and the download workers
MainThread == 0
Free == 0 - 1

\* both locks as __init__ creates them (downloads.py 35-36)
LocksFree ==
    /\ stats_lock = Free
    /\ active_processes_lock = Free

\* no process is being followed
RunIdle ==
    /\ stdout = <<>>
    /\ line_no = 0
    /\ return_code = 0
    /\ error_message = None
    /\ final_status = <<>>
    /\ emitted = <<>>

\* downloads.py 319-349: one iteration of the loop over the process's output
RunLine ==
    /\ line_no < Len(stdout)
    /\ line_no' = line_no + 1
    /\ error_message' = ErrorAfterLine(error_message, stdout[line_no + 1])
    /\ emitted' = EmittedAfterLine(emitted, stdout[line_no + 1])
    /\ UNCHANGED <<stdout, return_code, final_status>>
    /\ UNCHANGED <<appVars, instVars, lockVars>>

\* downloads.py 353-356: process.wait() once the output has ended, then final_status
RunWait ==
    /\ line_no = Len(stdout)
    /\ line_no' = line_no + 1
    /\ final_status' = StatusAfterWait(return_code, error_message)
    /\ UNCHANGED <<stdout, return_code, error_message, emitted>>
    /\ UNCHANGED <<appVars, instVars, lockVars>>

\* ---------------------------------------------------------------- job store
StoreIds(store) == {store[i].id : i \in DOMAIN store}
StoreIdx(store, id) == CHOOSE i \in DOMAIN store : store[i].id = id
StoreGet(store, id) == store[StoreIdx(store, id)]
StoreRemove(store, ids) == SelectSeq(store, LAMBDA r : r.id \notin ids)

\* controller.py 204-208: the store without the jobs whose status tests as finished
ClearCompleted(store) == SelectSeq(store, LAMBDA r : ~IsTerminal(r.status))

\* _handle_add_job: job_store[job.job_id] = job
HandleAddJob(store, ev) ==
    LET rec == [id |-> ev.id, status |-> ev.value, progress |-> ev.progress]
    IN IF ev.id \in StoreIds(store)
       THEN [store EXCEPT ![StoreIdx(store, ev.id)] = rec]
       ELSE Append(store, rec)

\* _handle_update_job: setattr(job_store[job_id], column, new_value)
HandleUpdateJob(store, ev) ==
    IF ev.id \in StoreIds(store) /\ ev.column \in {"status", "progress"}
    THEN IF ev.column = "status"
         THEN [store EXCEPT ![StoreIdx(store, ev.id)].status = ev.value]
         ELSE [store EXCEPT ![StoreIdx(store, ev.id)].progress = ev.value]
    ELSE store

\* _handle_done: job_store[job_id].status = status
HandleDone(store, ev) ==
    IF ev.id \in StoreIds(store)
    THEN [store EXCEPT ![StoreIdx(store, ev.id)].status = ev.value]
    ELSE store

\* _update_and_send_progress: the new value of is_downloading
ProgressCheck(completed, total, downloading) ==
    IF total > 0 /\ completed >= total /\ downloading THEN FALSE ELSE downloading

\* ---------------------------------------------------------------- worker pool
Alive(pcs) == {w \in DOMAIN pcs : pcs[w] # "dead"}

\* a pool that starts `limit` new workers whatever the number of live ones
StartWorkersUncounted(pcs, limit) ==
    LET dead == (DOMAIN pcs) \ Alive(pcs)
        k == Min(limit, Cardinality(dead))
        started == CHOOSE S \in SUBSET dead : Cardinality(S) = k
    IN [w \in DOMAIN pcs |-> IF w \in started THEN "loop" ELSE pcs[w]]

\* _start_workers: keep the live workers, start max_concurrent - len(workers) new ones
StartWorkers(pcs, limit) ==
    LET dead == (DOMAIN pcs) \ Alive(pcs)
        want == limit - Cardinality(Alive(pcs))
        k == IF want < 0 THEN 0 ELSE Min(want, Cardinality(dead))
        started == CHOOSE S \in SUBSET dead : Cardinality(S) = k
    IN [w \in DOMAIN pcs |-> IF w \in started THEN "loop" ELSE pcs[w]]

MaxUrlProcessors == 8
DefaultMaxConcurrent == 4

\* ---------------------------------------------------------------- options
\* the download options of a request: download_type, embed_thumbnail, embed_metadata
Options == [download_type : {"video", "audio"}, embed_thumbnail : BOOLEAN,
            embed_metadata : BOOLEAN]

\* the options of the Settings defaults (config.py 25-29)
DefaultOptions == [download_type |-> "video", embed_thumbnail |-> TRUE, embed_metadata |-> TRUE]

\* no session has been started / no request is pending (None)
NoOptions == [download_type |-> "none", embed_thumbnail |-> FALSE, embed_metadata |-> FALSE]
NoTask == [n |-> 0, options |-> NoOptions]

\* controller.py 174-175: the test that sends a request to the ffmpeg install
NeedsFfmpeg(opts) == opts.embed_thumbnail \/ opts.download_type = "audio"

\* ---------------------------------------------------------------- files
\* dependencies.py 27-29
CHUNKED_DOWNLOAD_THRESHOLD == 20 * 1024 * 1024
DOWNLOAD_CHUNKS == 8
DOWNLOAD_RETRY_ATTEMPTS == 3

\* iter_content(chunk_size=8192): the size of one part of a body
PartSize == 8192

Deps == {"yt-dlp", "ffmpeg"}

\* The content of a downloaded file is the sequence of the byte ranges <<lo, hi>> of
\* the resource at the install's URL it holds, adjacent ranges merged.
\* segs followed by the n bytes lo .. lo+n-1 of the resource (f.write)
AppendBytes(segs, lo, n) ==
    IF n <= 0 THEN segs
    ELSE IF segs # <<>> /\ segs[Len(segs)][2] + 1 = lo
    THEN [segs EXCEPT ![Len(segs)] = <<@[1], lo + n - 1>>]
    ELSE Append(segs, <<lo, lo + n - 1>>)

\* shutil.copyfileobj(f_in, f_out): a followed by b
RECURSIVE Concat(_, _)
Concat(a, b) ==
    IF b = <<>> THEN a
    ELSE Concat(AppendBytes(a, Head(b)[1], Head(b)[2] - Head(b)[1] + 1), Tail(b))

RECURSIVE SizeOf(_)
SizeOf(segs) ==
    IF segs = <<>> THEN 0 ELSE (Head(segs)[2] - Head(segs)[1] + 1) + SizeOf(Tail(segs))

\* the whole resource of n bytes
Body(n) == AppendBytes(<<>>, 0, n)

\* a path of the file system holds no file, the executable that was there before the
\* install ("old"), downloaded bytes ("data"), or the executable taken from a
\* complete ffmpeg archive ("extracted")
Absent == [kind |-> "absent", segs |-> <<>>]
OldFile == [kind |-> "old", segs |-> <<>>]
Extracted == [kind |-> "extracted", segs |-> <<>>]
Data(segs) == [kind |-> "data", segs |-> segs]

\* the sizes of the resources: a file below the chunking threshold and one above it
\* whose size is not a multiple of DOWNLOAD_CHUNKS
SmallSize == 3 * PartSize
LargeSize == CHUNKED_DOWNLOAD_THRESHOLD + PartSize + 5
Servers == [size : {SmallSize, LargeSize}, length : BOOLEAN, ranges : BOOLEAN]
NoServer == [size |-> 0, length |-> FALSE, ranges |-> FALSE]

\* DependencyManager.__init__ (dependencies.py 31-42): no install is running
InstallIdle ==
    /\ ipc = "idle"
    /\ idep = "none"
    /\ dep_stop_event = FALSE
    /\ archive = Absent
    /\ srv = NoServer
    /\ total_size = 0
    /\ attempt = 0
    /\ bytes_downloaded = 0
    /\ fallback = "none"
    /\ chunk_files = <<>>
    /\ chunk_raised = {}
    /\ dep_result = "none"
    /\ dep_done = <<>>
    /\ cancel_issued = FALSE
    /\ canon_before = Absent
    /\ stream_end = "none"

\* ---------------------------------------------------------------- settings
\* A filename template is a sequence of pieces of text: the fields %(title)s, %(id)s
\* and %(titles)s without their final s, the characters / \ . and another character.
Tokens == {"%(title)", "%(id)", "%(titles)", "/", "\\", ".", "s"}
MaxTemplateLen == 3
Templates == UNION {[1..k -> Tokens] : k \in 0..MaxTemplateLen}

\* config.py 30: '%(title).100s [%(id)s].%(ext)s'
DefaultTemplate == <<"%(title)", ".", "s", "%(id)", "s", ".", "s">>

Contains(t, tok) == \E i \in DOMAIN t : t[i] = tok

\* config.py 56: re.search(r'%\((?:title|id)\)', value)
HasTitleOrId(t) == Contains(t, "%(title)") \/ Contains(t, "%(id)")

\* '..' in value
HasDotDot(t) == \E i \in 1..(Len(t) - 1) : t[i] = "." /\ t[i + 1] = "."

\* Path(value).is_absolute() (POSIX)
IsAbsolute(t) == t # <<>> /\ t[1] = "/"

\* Settings.validate_filename_template (config.py 46-62): is_invalid
is_invalid(value) ==
    \/ value = <<>>
    \/ ~HasTitleOrId(value)
    \/ Contains(value, "/") \/ Contains(value, "\\") \/ HasDotDot(value)
    \/ IsAbsolute(value)

\* config.py 31: Field(default=4, ge=1, le=20)
MaxConcurrentOk(n) == 1 <= n /\ n <= 20

\* the values a caller passes for max_concurrent_downloads
SettingInputs == {0, 1, 20, 21}

DefaultSettings == [filename_template |-> DefaultTemplate,
                    max_concurrent_downloads |-> DefaultMaxConcurrent]

\* the configuration file: missing, or the JSON of these settings
NoFile == [exists |-> FALSE, filename_template |-> <<>>, max_concurrent_downloads |-> 0]
FileOf(st) == [exists |-> TRUE, filename_template |-> st.filename_template,
               max_concurrent_downloads |-> st.max_concurrent_downloads]
ConfigFiles == {NoFile} \cup
    [exists : {TRUE}, filename_template : Templates, max_concurrent_downloads : SettingInputs]

\* Settings.model_validate (config.py 109): the validators of the fields
Validates(f) == ~is_invalid(f.filename_template) /\ MaxConcurrentOk(f.max_concurrent_downloads)

\* ConfigManager.load (config.py 91-118): the Settings returned
Load(f) ==
    IF f.exists /\ Validates(f)
    THEN [filename_template |-> f.filename_template,
          max_concurrent_downloads |-> f.max_concurrent_downloads]
    ELSE DefaultSettings

\* ConfigManager.load: the file afterwards (defaults are saved when there is none,
\* 101-105; an invalid file is renamed to a backup, 110-118)
FileAfterLoad(f) ==
    IF ~f.exists THEN FileOf(DefaultSettings)
    ELSE IF Validates(f) THEN f ELSE NoFile

\* AppController.save_settings (controller.py 244-255): model_copy(update=...) builds
\* the new Settings without running the validators, the file is written, the
\* controller's Settings are updated and set_config is called (downloads.py 43-54)
SaveSettings(data) ==
    /\ filename_template' = data.filename_template
    /\ config_max' = data.max_concurrent_downloads
    /\ config_file' = FileOf(data)
    /\ max_concurrent_downloads' = data.max_concurrent_downloads

\* main.py 46-47: the Settings loaded from the configuration file f at start-up
SettingsFromFile(f) ==
    /\ filename_template = Load(f).filename_template
    /\ config_file = FileAfterLoad(f)

\* a configuration file with the default template and max_concurrent_downloads = limit
FileWith(limit) ==
    FileOf([filename_template |-> DefaultTemplate, max_concurrent_downloads |-> limit])

\* ---------------------------------------------------------------- Init
\* DownloadManager.__init__ (downloads.py 21-41) and AppController.__init__
\* (controller.py 25-46); limit is the max_concurrent_downloads of the loaded Settings
Constructed(limit) ==
    /\ stop_event = FALSE
    /\ job_queue = <<>>
    /\ url_processing_queue = 0
    /\ url_unfinished = 0
    /\ completed_jobs = 0
    /\ total_jobs = 0
    /\ active_processes = EmptyDict
    /\ config_max = limit
    /\ max_concurrent_downloads = DefaultMaxConcurrent
    /\ wpc = [w \in Workers |-> "dead"]
    /\ wjob = [w \in Workers |-> NoJob]
    /\ wfinal = [w \in Workers |-> "Failed"]
    /\ werr = [w \in Workers |-> FALSE]
    /\ wlines = [w \in Workers |-> 0]
    /\ wline = [w \in Workers |-> NoLine]
    /\ proc = [w \in Workers |-> "none"]
    /\ upc = [u \in UProcs |-> "dead"]
    /\ ucount = [u \in UProcs |-> 0]
    /\ uidx = [u \in UProcs |-> 0]
    /\ uowed = [u \in UProcs |-> 0]
    /\ monitors = 0
    /\ mainpc = "idle"
    /\ closing = FALSE
    /\ procs_to_terminate = {}
    /\ stop_log = {}
    /\ gui_queue = <<>>
    /\ job_store = <<>>
    /\ is_downloading = FALSE
    /\ synthetic = {}
    /\ nextId = 1
    /\ doneLog = [j \in JobIds |-> <<>>]
    /\ donesSinceReset = 0
    /\ urlDoneEvents = 0
    /\ activeAtStop = {}

Init ==
    /\ Constructed(MaxConcurrent)
    /\ RunIdle
    /\ LocksFree
    /\ SettingsFromFile(FileWith(MaxConcurrent))
    /\ callsLeft = MaxCalls
    /\ pendingLimit = MaxPending
    /\ retry_call = NoRetryCall
    /\ ffmpeg_path = TRUE
    /\ pending_download_task = NoTask
    /\ dm_options = NoOptions
    /\ InstallIdle
    /\ canonical = [d \in Deps |-> OldFile]
    /\ installsLeft = 0

\* the same program configured with one download worker, a user who only starts
\* and stops, and an event queue that is handled with a longer delay
InitRestart ==
    /\ Constructed(1)
    /\ RunIdle
    /\ LocksFree
    /\ SettingsFromFile(FileWith(1))
    /\ callsLeft = MaxRestartCalls
    /\ pendingLimit = MaxPending + 1
    /\ retry_call = NoRetryCall
    /\ ffmpeg_path = TRUE
    /\ pending_download_task = NoTask
    /\ dm_options = NoOptions
    /\ InstallIdle
    /\ canonical = [d \in Deps |-> OldFile]
    /\ installsLeft = 0

\* the same program on a machine without ffmpeg, one download worker, a user who
\* starts downloads with any options, installs ffmpeg and stops
InitFfmpeg ==
    /\ Constructed(1)
    /\ RunIdle
    /\ LocksFree
    /\ SettingsFromFile(FileWith(1))
    /\ callsLeft = MaxFfmpegCalls
    /\ pendingLimit = MaxPending
    /\ retry_call = NoRetryCall
    /\ ffmpeg_path = FALSE
    /\ pending_download_task = NoTask
    /\ dm_options = NoOptions
    /\ InstallIdle
    /\ canonical = [d \in Deps |-> IF d = "ffmpeg" THEN Absent ELSE OldFile]
    /\ installsLeft = 0

\* ---------------------------------------------------------------- main thread
\* DownloadManager.set_config and DownloadManager.start_downloads (downloads.py 43-54,
\* 66-97), called at controller.py 188-189
DmStartDownloads(n, opts) ==
    /\ LET k == Min(MaxUrlProcessors, n)
           free == {u \in UProcs : upc[u] = "dead"}
       IN /\ Cardinality(free) >= k
          /\ \E started \in SUBSET free :
                /\ Cardinality(started) = k
                /\ \A a \in started, b \in free \ started : a < b
                /\ upc' = [u \in UProcs |-> IF u \in started THEN "loop" ELSE upc[u]]
    /\ max_concurrent_downloads' = config_max
    /\ dm_options' = opts
    /\ completed_jobs' = 0
    /\ total_jobs' = 0
    /\ donesSinceReset' = 0
    /\ stop_event' = FALSE
    /\ wpc' = StartWorkers(wpc, config_max)
    /\ url_processing_queue' = url_processing_queue + n
    /\ url_unfinished' = url_unfinished + n
    /\ monitors' = monitors + 1

\* what DmStartDownloads changes
dmStartVars == <<upc, max_concurrent_downloads, dm_options, completed_jobs, total_jobs,
                 donesSinceReset, stop_event, wpc, url_processing_queue, url_unfinished,
                 monitors>>

\* AppController.start_downloads (controller.py 157-189); yt-dlp is installed and the
\* output directory is writable.  `ffmpeg` is dep_manager.ffmpeg_path and `pending`
\* is pending_download_task when the method is entered.
StartDownloads(n, opts, ffmpeg, pending) ==
    IF is_downloading
    THEN /\ pending_download_task' = pending
         /\ UNCHANGED <<is_downloading, dmStartVars>>
    ELSE IF NeedsFfmpeg(opts) /\ ~ffmpeg
    THEN /\ pending_download_task' = [n |-> n, options |-> opts]
         /\ is_downloading' = TRUE
         /\ UNCHANGED dmStartVars
    ELSE /\ pending_download_task' = pending
         /\ is_downloading' = TRUE
         /\ DmStartDownloads(n, opts)

\* the user submits n URLs with options opts (a request made while a download is in
\* progress returns at controller.py 159 and is not modelled as a call)
CtlStartDownloads(n, opts) ==
    /\ mainpc = "idle"
    /\ ~is_downloading
    /\ callsLeft > 0
    /\ StartDownloads(n, opts, ffmpeg_path, pending_download_task)
    /\ callsLeft' = callsLeft - 1
    /\ UNCHANGED <<pendingLimit, retry_call, ffmpeg_path>>
    /\ UNCHANGED <<job_queue, active_processes, wjob, wfinal, werr, wlines, wline, proc,
                   ucount, uidx, uowed, mainVars, gui_queue, job_store, config_max,
                   synthetic, nextId, doneLog, urlDoneEvents, activeAtStop>>
    /\ UNCHANGED <<instVars, runVars, lockVars>>
    /\ UNCHANGED cfgVars

\* AppController.initiate_dependency_download('ffmpeg') (controller.py 257-275) on a
\* machine without ffmpeg, ending in _handle_dependency_result (137-155): find_ffmpeg
\* finds the executable iff the install succeeded
CtlDependencyResult(success) ==
    /\ mainpc = "idle"
    /\ callsLeft > 0
    /\ ~ffmpeg_path
    /\ ffmpeg_path' = success
    /\ IF pending_download_task = NoTask
       THEN UNCHANGED <<pending_download_task, is_downloading, dmStartVars>>
       ELSE IF success
       THEN StartDownloads(pending_download_task.n, pending_download_task.options,
                           TRUE, NoTask)
       ELSE /\ pending_download_task' = NoTask
            /\ is_downloading' = FALSE
            /\ UNCHANGED dmStartVars
    /\ callsLeft' = callsLeft - 1
    /\ UNCHANGED <<pendingLimit, retry_call>>
    /\ UNCHANGED <<job_queue, active_processes, wjob, wfinal, werr, wlines, wline, proc,
                   ucount, uidx, uowed, mainVars, gui_queue, job_store, config_max,
                   synthetic, nextId, doneLog, urlDoneEvents, activeAtStop>>
    /\ canonical' = IF success THEN [canonical EXCEPT !["ffmpeg"] = Extracted] ELSE canonical
    /\ UNCHANGED <<ipc, idep, dep_stop_event, archive, srv, total_size, bytes_downloaded, attempt, fallback,
                   chunk_files, chunk_raised, dep_result, dep_done, canon_before, stream_end,
                   installsLeft, cancel_issued>>
    /\ UNCHANGED <<cfgVars, runVars, lockVars>>

\* the jobs add_jobs queues: none once the stop signal is set (downloads.py 111-116)
JobsToQueue(ids, stopped) == IF stopped THEN <<>> ELSE ids

RECURSIVE AddJobEvents(_)
AddJobEvents(ids) ==
    IF ids = <<>> THEN <<>>
    ELSE <<AddJobEv(Head(ids), "Queued", "0%")>> \o AddJobEvents(Tail(ids))

\* the ids of `store`, in store order, that are in S
RECURSIVE IdsInOrder(_, _)
IdsInOrder(store, S) ==
    IF store = <<>> THEN <<>>
    ELSE (IF Head(store).id \in S THEN <<Head(store).id>> ELSE <<>>) \o IdsInOrder(Tail(store), S)

\* AppController.add_jobs_for_retry (controller.py 214-227) followed by
\* DownloadManager.add_jobs (downloads.py 99-121); S is a selection of failed jobs.
CtlRetry(S) ==
    /\ mainpc = "idle"
    /\ callsLeft > 0
    /\ S # {}
    /\ S \subseteq StoreIds(job_store)
    /\ \A id \in S : StoreGet(job_store, id).status \in FailureStatuses
    /\ LET ids == IdsInOrder(job_store, S)
           queued == JobsToQueue(ids, stop_event)
       IN /\ job_store' = StoreRemove(job_store, S)
          /\ is_downloading' = TRUE
          /\ gui_queue' = gui_queue \o AddJobEvents(queued)
          /\ job_queue' = job_queue \o queued
          /\ total_jobs' = total_jobs + Len(ids)
    /\ wpc' = StartWorkers(wpc, max_concurrent_downloads)
    /\ callsLeft' = callsLeft - 1
    /\ UNCHANGED <<pendingLimit, retry_call, depVars>>
    /\ UNCHANGED <<stop_event, url_processing_queue, url_unfinished, completed_jobs,
                   active_processes, max_concurrent_downloads, wjob, wfinal, werr, wlines,
                   wline, proc, uVars, monitors, mainVars, config_max, synthetic, nextId,
                   histVars>>
    /\ UNCHANGED <<instVars, runVars, lockVars>>
    /\ UNCHANGED cfgVars

\* controller.py 216: the ids of the argument that are in the store, in its order
PresentIds(store, ids) == SelectSeq(ids, LAMBDA id : id \in StoreIds(store))

\* controller.py 221-222: `del self.job_store[job_id]` for every id of the argument;
\* the ids deleted before the loop ends or reaches an id that is not a key
RECURSIVE DeletedIds(_, _)
DeletedIds(store, ids) ==
    IF ids = <<>> \/ Head(ids) \notin StoreIds(store) THEN {}
    ELSE {Head(ids)} \cup DeletedIds(store, Tail(ids))

\* controller.py 222: del raises KeyError for an id that is no key of the store
RetryRaises(store, ids) == \E i \in DOMAIN ids : ids[i] \notin StoreIds(store)

\* lists of distinct job ids (a selection of the job list)
IdLists == {ids \in UNION {[1..n -> JobIds] : n \in 1..MaxJobs} :
               \A i, j \in DOMAIN ids : i # j => ids[i] # ids[j]}

\* AppController.add_jobs_for_retry (controller.py 214-227) called with any list of
\* distinct ids, the ids in the store being those of failed jobs, followed by
\* DownloadManager.add_jobs (downloads.py 99-121) when it is reached
CtlRetryList(ids) ==
    /\ mainpc = "idle"
    /\ callsLeft > 0
    /\ \A i \in DOMAIN ids :
          ids[i] \in StoreIds(job_store) =>
              StoreGet(job_store, ids[i]).status \in FailureStatuses
    /\ LET jobs_to_retry == PresentIds(job_store, ids)
           queued == JobsToQueue(jobs_to_retry, stop_event)
       IN IF jobs_to_retry = <<>>
          THEN /\ retry_call' = [ids |-> ids, raised |-> FALSE, calls |-> callsLeft]
               /\ UNCHANGED <<job_store, is_downloading, gui_queue, job_queue, total_jobs, wpc>>
          ELSE IF RetryRaises(job_store, ids)
          THEN /\ retry_call' = [ids |-> ids, raised |-> TRUE, calls |-> callsLeft]
               /\ job_store' = StoreRemove(job_store, DeletedIds(job_store, ids))
               /\ UNCHANGED <<is_downloading, gui_queue, job_queue, total_jobs, wpc>>
          ELSE /\ retry_call' = [ids |-> ids, raised |-> FALSE, calls |-> callsLeft]
               /\ job_store' = StoreRemove(job_store, DeletedIds(job_store, ids))
               /\ is_downloading' = TRUE
               /\ gui_queue' = gui_queue \o AddJobEvents(queued)
               /\ job_queue' = job_queue \o queued
               /\ total_jobs' = total_jobs + Len(jobs_to_retry)
               /\ wpc' = StartWorkers(wpc, max_concurrent_downloads)
    /\ callsLeft' = callsLeft - 1
    /\ UNCHANGED <<pendingLimit, depVars>>
    /\ UNCHANGED <<stop_event, url_processing_queue, url_unfinished, completed_jobs,
                   active_processes, max_concurrent_downloads, wjob, wfinal, werr, wlines,
                   wline, proc, uVars, monitors, mainVars, config_max, synthetic, nextId,
                   histVars>>
    /\ UNCHANGED <<instVars, runVars, lockVars>>
    /\ UNCHANGED cfgVars

\* AppController.save_settings (controller.py 244-255) with a valid value, and
\* DownloadManager.set_config (downloads.py 43-54)
CtlSaveSettings(n) ==
    /\ mainpc = "idle"
    /\ callsLeft > 0
    /\ SaveSettings([filename_template |-> filename_template, max_concurrent_downloads |-> n])
    /\ callsLeft' = callsLeft - 1
    /\ UNCHANGED <<pendingLimit, retry_call, depVars>>
    /\ UNCHANGED <<stop_event, job_queue, url_processing_queue, url_unfinished,
                   completed_jobs, total_jobs, active_processes, wVars, uVars, monitors,
                   mainVars, gui_queue, job_store, is_downloading, synthetic, nextId,
                   histVars>>
    /\ UNCHANGED <<instVars, runVars, lockVars>>

\* AppController.clear_completed_jobs (controller.py 201-212)
CtlClearCompleted ==
    /\ mainpc = "idle"
    /\ callsLeft > 0
    /\ callsLeft' = callsLeft - 1
    /\ UNCHANGED <<pendingLimit, retry_call, depVars>>
    /\ job_store' = ClearCompleted(job_store)
    /\ is_downloading' = ProgressCheck(completed_jobs, total_jobs, is_downloading)
    /\ UNCHANGED <<dmVars, wVars, uVars, monitors, mainVars, gui_queue, config_max,
                   synthetic, nextId, histVars>>
    /\ UNCHANGED <<instVars, runVars, lockVars>>
    /\ UNCHANGED cfgVars

\* AppController._on_manager_event (controller.py 76-110): the next event of the queue
\* is handled, then _update_and_send_progress (121-135) runs.
CtlHandleEvent ==
    /\ mainpc = "idle"
    /\ gui_queue # <<>>
    /\ LET ev == Head(gui_queue)
       IN job_store' = CASE ev.type = "add_job" -> HandleAddJob(job_store, ev)
                         [] ev.type = "update_job" -> HandleUpdateJob(job_store, ev)
                         [] ev.type = "done" -> HandleDone(job_store, ev)
                         [] OTHER -> job_store
    /\ gui_queue' = Tail(gui_queue)
    /\ is_downloading' = ProgressCheck(completed_jobs, total_jobs, is_downloading)
    /\ UNCHANGED <<dmVars, wVars, uVars, monitors, mainVars, config_max, synthetic,
                   nextId, histVars, callVars, depVars>>
    /\ UNCHANGED <<instVars, runVars, lockVars>>
    /\ UNCHANGED cfgVars

\* AppController.stop_all_downloads (controller.py 191-199) entering
\* DownloadManager.stop_all_downloads: stop_event.set() (downloads.py 126)
StopSet ==
    /\ mainpc = "idle"
    /\ is_downloading
    /\ callsLeft > 0
    /\ stop_event' = TRUE
    /\ mainpc' = "drain_jobs"
    /\ activeAtStop' = DOMAIN active_processes
    /\ callsLeft' = callsLeft - 1
    /\ UNCHANGED <<pendingLimit, retry_call, depVars>>
    /\ UNCHANGED <<job_queue, url_processing_queue, url_unfinished, completed_jobs,
                   total_jobs, active_processes, max_concurrent_downloads, wVars, uVars,
                   monitors, procs_to_terminate, stop_log, gui_queue, ctlVars, synthetic,
                   nextId, doneLog, donesSinceReset, urlDoneEvents>>
    /\ UNCHANGED <<instVars, runVars, lockVars>>
    /\ UNCHANGED <<cfgVars, closing>>

\* AppController.on_app_closing (controller.py 229-242): DownloadManager's
\* stop_all_downloads is entered if is_downloading, else the settings are saved at once
CtlAppClosing ==
    /\ mainpc = "idle"
    /\ callsLeft > 0
    /\ callsLeft' = callsLeft - 1
    /\ closing' = TRUE
    /\ IF is_downloading
       THEN /\ stop_event' = TRUE
            /\ mainpc' = "drain_jobs"
            /\ activeAtStop' = DOMAIN active_processes
            /\ UNCHANGED config_file
       ELSE /\ mainpc' = "closed"
            /\ config_file' = FileOf([filename_template |-> filename_template,
                                      max_concurrent_downloads |-> config_max])
            /\ UNCHANGED <<stop_event, activeAtStop>>
    /\ UNCHANGED <<pendingLimit, retry_call, depVars, instVars, runVars, lockVars, filename_template>>
    /\ UNCHANGED <<job_queue, url_processing_queue, url_unfinished, completed_jobs,
                   total_jobs, active_processes, max_concurrent_downloads, wVars, uVars,
                   monitors, procs_to_terminate, stop_log, gui_queue, ctlVars, synthetic,
                   nextId, doneLog, donesSinceReset, urlDoneEvents>>

\* downloads.py 128-137, q is job_queue: one drained job, or the queue is empty
StopDrainJobs ==
    /\ mainpc = "drain_jobs"
    /\ IF job_queue # <<>>
       THEN /\ job_queue' = Tail(job_queue)
            /\ gui_queue' = Append(gui_queue, DoneEv(Head(job_queue), "Cancelled"))
            /\ doneLog' = LogDone(doneLog, Head(job_queue), "Cancelled")
            /\ donesSinceReset' = donesSinceReset + 1
            /\ UNCHANGED mainpc
       ELSE /\ mainpc' = "drain_urls"
            /\ UNCHANGED <<job_queue, gui_queue, doneLog, donesSinceReset>>
    /\ UNCHANGED <<stop_event, url_processing_queue, url_unfinished, completed_jobs,
                   total_jobs, active_processes, max_concurrent_downloads, wVars, uVars,
                   monitors, procs_to_terminate, stop_log, ctlVars, synthetic, nextId,
                   urlDoneEvents, activeAtStop, callVars, depVars>>
    /\ UNCHANGED <<instVars, runVars, lockVars>>
    /\ UNCHANGED <<cfgVars, closing>>

\* downloads.py 128-137, q is url_processing_queue: get_nowait and task_done per item
StopDrainUrls ==
    /\ mainpc = "drain_urls"
    /\ url_processing_queue' = 0
    /\ url_unfinished' = url_unfinished - url_processing_queue
    /\ mainpc' = "snapshot"
    /\ UNCHANGED <<stop_event, job_queue, completed_jobs, total_jobs, active_processes,
                   max_concurrent_downloads, wVars, uVars, monitors, procs_to_terminate,
                   stop_log, gui_queue, ctlVars, synthetic, nextId, histVars, callVars, depVars>>
    /\ UNCHANGED <<instVars, runVars, lockVars>>
    /\ UNCHANGED <<cfgVars, closing>>

\* downloads.py 139-140: the snapshot, taken under active_processes_lock
StopSnapshotBody ==
    /\ mainpc = "snapshot"
    /\ procs_to_terminate' = {<<j, active_processes[j]>> : j \in DOMAIN active_processes}
    /\ mainpc' = "terminate"
    /\ UNCHANGED <<stop_log, closing, dmVars, wVars, uVars, monitors, gui_queue, ctlVars, synthetic, nextId,
                   histVars, callVars, depVars>>
    /\ UNCHANGED <<instVars, runVars>>
    /\ UNCHANGED cfgVars

StopSnapshot == StopSnapshotBody /\ UNCHANGED lockVars

\* downloads.py 144-158, what the environment decides for one entry: whether the
\* group interrupt is delivered (145-148) and whether the process exits within the
\* wait of 10 s (150).  A running process takes the signal; a process that has ended
\* by itself takes it while it is not reaped (the wait returns at once) and makes
\* getpgid raise ProcessLookupError once its worker has reaped it.
SignalOutcomes(st) ==
    IF st = "running"
    THEN {[interrupted |-> TRUE, exited |-> TRUE], [interrupted |-> TRUE, exited |-> FALSE]}
    ELSE {[interrupted |-> TRUE, exited |-> TRUE], [interrupted |-> FALSE, exited |-> FALSE]}

ForcedKillAlways(interrupted, exited) == TRUE

\* downloads.py 152-158: the except branch is entered when the interrupt raised
\* (OSError, ProcessLookupError) or the wait raised TimeoutExpired
ForcedKillNeeded(interrupted, exited) == ~interrupted \/ ~exited

\* downloads.py 144-160: the operations performed on one entry, in order
TerminateOps(interrupted, exited) ==
    <<"interrupt">> \o (IF interrupted THEN <<"wait">> ELSE <<>>)
                    \o (IF ForcedKillNeeded(interrupted, exited) THEN <<"kill">> ELSE <<>>)

\* the state of the process afterwards: ended ("killed"), or, after the forced group
\* signal, which is not waited for, signalled and still alive ("terminating"); the
\* forced signal to a process that is gone raises and is logged (159-160)
AfterTerminate(st, o) ==
    IF st = "running" THEN (IF o.exited THEN "killed" ELSE "terminating") ELSE st

\* downloads.py 142-164: one entry of the snapshot
StopTerminateBody ==
    /\ mainpc = "terminate"
    /\ IF procs_to_terminate # {}
       THEN \E e \in procs_to_terminate :
            /\ \E o \in SignalOutcomes(proc[e[2]]) :
                  /\ proc' = [proc EXCEPT ![e[2]] = AfterTerminate(@, o)]
                  /\ stop_log' = stop_log \cup
                        {[job |-> e[1], interrupted |-> o.interrupted, exited |-> o.exited,
                          ops |-> TerminateOps(o.interrupted, o.exited)]}
            /\ gui_queue' = Append(gui_queue, DoneEv(e[1], "Cancelled"))
            /\ doneLog' = LogDone(doneLog, e[1], "Cancelled")
            /\ donesSinceReset' = donesSinceReset + 1
            /\ active_processes' = DictDel(active_processes, e[1])
            /\ procs_to_terminate' = procs_to_terminate \ {e}
            /\ UNCHANGED mainpc
       ELSE /\ mainpc' = "reset"
            /\ UNCHANGED <<proc, gui_queue, doneLog, donesSinceReset, active_processes,
                           procs_to_terminate, stop_log>>
    /\ UNCHANGED <<stop_event, job_queue, url_processing_queue, url_unfinished,
                   completed_jobs, total_jobs, max_concurrent_downloads, wpc, wjob, wfinal,
                   werr, wlines, wline, uVars, monitors, ctlVars, synthetic, nextId,
                   urlDoneEvents, activeAtStop, callVars, depVars>>
    /\ UNCHANGED <<instVars, runVars>>
    /\ UNCHANGED <<cfgVars, closing>>

StopTerminate == StopTerminateBody /\ UNCHANGED lockVars

\* downloads.py 166-168, then the rest of the caller: AppController.stop_all_downloads
\* (controller.py 196-199), or on_app_closing, which saves the settings (235-242)
StopResetBody ==
    /\ mainpc = "reset"
    /\ total_jobs' = 0
    /\ completed_jobs' = 0
    /\ donesSinceReset' = 0
    /\ stop_log' = {}
    /\ IF closing
       THEN /\ mainpc' = "closed"
            /\ config_file' = FileOf([filename_template |-> filename_template,
                                      max_concurrent_downloads |-> config_max])
            /\ UNCHANGED <<job_store, is_downloading>>
       ELSE /\ mainpc' = "idle"
            /\ job_store' = <<>>
            /\ is_downloading' = FALSE
            /\ UNCHANGED config_file
    /\ UNCHANGED <<stop_event, job_queue, url_processing_queue, url_unfinished,
                   active_processes, max_concurrent_downloads, wVars, uVars, monitors,
                   procs_to_terminate, gui_queue, config_max, synthetic, nextId, doneLog,
                   urlDoneEvents, activeAtStop, callVars, depVars>>
    /\ UNCHANGED <<instVars, runVars, filename_template, closing>>

StopReset == StopResetBody /\ UNCHANGED lockVars

\* ---------------------------------------------------------------- download workers
\* _worker_thread, downloads.py 249: while not self.stop_event.is_set()
WLoop(w) ==
    /\ wpc[w] = "loop"
    /\ wpc' = [wpc EXCEPT ![w] = IF stop_event THEN "dead" ELSE "get"]
    /\ UNCHANGED <<dmVars, wjob, wfinal, werr, wlines, wline, proc, uVars, monitors,
                   mainVars, gui_queue, ctlVars, synthetic, nextId, histVars, callVars, depVars>>
    /\ UNCHANGED <<instVars, runVars, lockVars>>
    /\ UNCHANGED cfgVars

\* downloads.py 251, 260-261: job_queue.get(timeout=1); on queue.Empty the loop
\* condition (249) is evaluated again, which ends the thread once the stop signal is set
WGet(w) ==
    /\ wpc[w] = "get"
    /\ IF job_queue # <<>>
       THEN /\ wjob' = [wjob EXCEPT ![w] = Head(job_queue)]
            /\ job_queue' = Tail(job_queue)
            /\ wpc' = [wpc EXCEPT ![w] = "got"]
       ELSE /\ stop_event
            /\ wpc' = [wpc EXCEPT ![w] = "dead"]
            /\ UNCHANGED <<wjob, job_queue>>
    /\ UNCHANGED <<stop_event, url_processing_queue, url_unfinished, completed_jobs,
                   total_jobs, active_processes, max_concurrent_downloads, wfinal, werr,
                   wlines, wline, proc, uVars, monitors, mainVars, gui_queue, ctlVars,
                   synthetic, nextId, histVars, callVars, depVars>>
    /\ UNCHANGED <<instVars, runVars, lockVars>>
    /\ UNCHANGED cfgVars

OnQueueEmptyBreak == "dead"

\* downloads.py 259-260: where `except queue.Empty: continue` takes the worker
OnQueueEmpty == "loop"

\* downloads.py 251, 259-260: job_queue.get(timeout=1) times out on an empty queue and
\* `except queue.Empty: continue` takes the thread back to the loop condition (249)
WGetTimeout(w) ==
    /\ wpc[w] = "get"
    /\ job_queue = <<>>
    /\ ~stop_event
    /\ wpc' = [wpc EXCEPT ![w] = OnQueueEmpty]
    /\ UNCHANGED <<dmVars, wjob, wfinal, werr, wlines, wline, proc, uVars, monitors,
                   mainVars, gui_queue, ctlVars, synthetic, nextId, histVars, callVars, depVars>>
    /\ UNCHANGED <<instVars, runVars, lockVars, cfgVars>>

\* downloads.py 253-256: the cancellation check after the dequeue
WGot(w) ==
    /\ wpc[w] = "got"
    /\ Len(gui_queue) < pendingLimit
    /\ IF stop_event
       THEN /\ gui_queue' = Append(gui_queue, DoneEv(wjob[w], "Cancelled"))
            /\ doneLog' = LogDone(doneLog, wjob[w], "Cancelled")
            /\ donesSinceReset' = donesSinceReset + 1
            /\ wpc' = [wpc EXCEPT ![w] = "loop"]
            /\ wjob' = [wjob EXCEPT ![w] = NoJob]
       ELSE /\ gui_queue' = Append(gui_queue, UpdateEv(wjob[w], "status", "Downloading"))
            /\ wpc' = [wpc EXCEPT ![w] = "spawn"]
            /\ UNCHANGED <<doneLog, donesSinceReset, wjob>>
    /\ UNCHANGED <<dmVars, wfinal, werr, wlines, wline, proc, uVars, monitors,
                   mainVars, ctlVars, synthetic, nextId, urlDoneEvents, activeAtStop,
                   callVars, depVars>>
    /\ UNCHANGED <<instVars, runVars, lockVars>>
    /\ UNCHANGED cfgVars

MaySpawnUnchecked(stopped) == TRUE

\* whether the worker may spawn: the check made under active_processes_lock (315)
MaySpawn(stopped) == ~stopped

\* _run_download_process, downloads.py 304-317: the command is built (a job created
\* with empty options raises KeyError, caught at 366), then under
\* active_processes_lock the stop signal is checked, the process is spawned and
\* registered; Popen may raise FileNotFoundError/OSError (357-365).
WSpawnBody(w) ==
    /\ wpc[w] = "spawn"
    /\ werr' = [werr EXCEPT ![w] = FALSE]
    /\ wlines' = [wlines EXCEPT ![w] = 0]
    /\ IF wjob[w] \in synthetic
       THEN /\ wfinal' = [wfinal EXCEPT ![w] = "Error"]
            /\ wpc' = [wpc EXCEPT ![w] = "finally"]
            /\ UNCHANGED <<proc, active_processes>>
       ELSE IF ~MaySpawn(stop_event)
       THEN /\ wfinal' = [wfinal EXCEPT ![w] = "Failed"]
            /\ wpc' = [wpc EXCEPT ![w] = "finally"]
            /\ UNCHANGED <<proc, active_processes>>
       ELSE \/ /\ proc' = [proc EXCEPT ![w] = "running"]
               /\ active_processes' = DictPut(active_processes, wjob[w], w)
               /\ wfinal' = [wfinal EXCEPT ![w] = "Failed"]
               /\ wpc' = [wpc EXCEPT ![w] = "read"]
            \/ /\ wfinal' = [wfinal EXCEPT ![w] = "Error"]
               /\ wpc' = [wpc EXCEPT ![w] = "finally"]
               /\ UNCHANGED <<proc, active_processes>>
    /\ UNCHANGED <<stop_event, job_queue, url_processing_queue, url_unfinished,
                   completed_jobs, total_jobs, max_concurrent_downloads, wjob, wline,
                   uVars, monitors, mainVars, gui_queue, ctlVars, synthetic, nextId,
                   histVars, callVars, depVars>>
    /\ UNCHANGED <<instVars, runVars>>
    /\ UNCHANGED cfgVars

WSpawn(w) == WSpawnBody(w) /\ UNCHANGED lockVars

\* the exits of a live process: with code 0 or 1 on its own, by the signal of stop
ExitsOf(st) == IF st = "running" THEN {"exit0", "exit1"} ELSE {"killed"}

Live(st) == st \in {"running", "terminating"}

\* downloads.py 320-321: readline returns a line, or '' once the process has closed
\* its stdout (it exits with code 0 or 1 unless it was terminated by stop); a line
\* read while the stop signal is set ends the loop
WRead(w) ==
    /\ wpc[w] = "read"
    /\ \/ /\ Live(proc[w])
          /\ wlines[w] < MaxLines
          /\ \E line \in Lines :
                /\ wlines' = [wlines EXCEPT ![w] = @ + 1]
                /\ IF stop_event
                   THEN /\ wpc' = [wpc EXCEPT ![w] = "wait"]
                        /\ UNCHANGED wline
                   ELSE /\ wpc' = [wpc EXCEPT ![w] = "parse"]
                        /\ wline' = [wline EXCEPT ![w] = line]
          /\ UNCHANGED proc
       \/ /\ Live(proc[w])
          /\ \E rc \in ExitsOf(proc[w]) : proc' = [proc EXCEPT ![w] = rc]
          /\ wpc' = [wpc EXCEPT ![w] = "wait"]
          /\ UNCHANGED <<wlines, wline>>
       \/ /\ ~Live(proc[w])
          /\ wpc' = [wpc EXCEPT ![w] = "wait"]
          /\ UNCHANGED <<proc, wlines, wline>>
    /\ UNCHANGED <<dmVars, wjob, wfinal, werr, uVars, monitors, mainVars, gui_queue,
                   ctlVars, synthetic, nextId, histVars, callVars, depVars>>
    /\ UNCHANGED <<instVars, runVars, lockVars>>
    /\ UNCHANGED cfgVars

\* downloads.py 322-349: one line parsed; a percentage becomes an update_job event
WParse(w) ==
    /\ wpc[w] = "parse"
    /\ Len(gui_queue) < pendingLimit
    /\ IF wline[w].kind = "progress"
       THEN /\ gui_queue' = Append(gui_queue,
                                   UpdateEv(wjob[w], "progress", FormatProgress(wline[w].pct)))
            /\ UNCHANGED werr
       ELSE /\ werr' = [werr EXCEPT ![w] = (wline[w].kind = "error") \/ @]
            /\ UNCHANGED gui_queue
    /\ wline' = [wline EXCEPT ![w] = NoLine]
    /\ wpc' = [wpc EXCEPT ![w] = "read"]
    /\ UNCHANGED <<dmVars, wjob, wfinal, wlines, proc, uVars, monitors, mainVars, ctlVars,
                   synthetic, nextId, histVars, callVars, depVars>>
    /\ UNCHANGED <<instVars, runVars, lockVars>>
    /\ UNCHANGED cfgVars

\* downloads.py 355-356: the final status from the exit code and the captured error
FinalStatus(rc, err) ==
    IF rc = "exit0" THEN "Completed"
    ELSE IF err THEN "Failed: msg" ELSE "Failed"

\* downloads.py 353-356: process.wait(), then `if self.stop_event.is_set(): return`
WWait(w) ==
    /\ wpc[w] = "wait"
    /\ \E st \in (IF Live(proc[w]) THEN ExitsOf(proc[w]) ELSE {proc[w]}) :
          /\ proc' = [proc EXCEPT ![w] = st]
          /\ wfinal' = [wfinal EXCEPT ![w] =
                           IF stop_event THEN @ ELSE FinalStatus(st, werr[w])]
    /\ wpc' = [wpc EXCEPT ![w] = "finally"]
    /\ UNCHANGED <<dmVars, wjob, werr, wlines, wline, uVars, monitors, mainVars,
                   gui_queue, ctlVars, synthetic, nextId, histVars, callVars, depVars>>
    /\ UNCHANGED <<instVars, runVars, lockVars>>
    /\ UNCHANGED cfgVars

\* whether the finally block reports the job: `if not self.stop_event.is_set()` (372)
MayReport(stopped) == ~stopped

\* downloads.py 369-372: the handle is removed under the lock, the stop signal is read
\* (the locals of a finished job are cleared when the worker goes back to its loop)
WFinallyBody(w) ==
    /\ wpc[w] = "finally"
    /\ active_processes' = DictDel(active_processes, wjob[w])
    /\ proc' = [proc EXCEPT ![w] = "none"]
    /\ werr' = [werr EXCEPT ![w] = FALSE]
    /\ wlines' = [wlines EXCEPT ![w] = 0]
    /\ IF MayReport(stop_event)
       THEN /\ wpc' = [wpc EXCEPT ![w] = "report"]
            /\ UNCHANGED <<wjob, wfinal>>
       ELSE /\ wpc' = [wpc EXCEPT ![w] = "loop"]
            /\ wjob' = [wjob EXCEPT ![w] = NoJob]
            /\ wfinal' = [wfinal EXCEPT ![w] = "Failed"]
    /\ UNCHANGED <<stop_event, job_queue, url_processing_queue, url_unfinished,
                   completed_jobs, total_jobs, max_concurrent_downloads, wline, uVars,
                   monitors, mainVars, gui_queue, ctlVars, synthetic, nextId, histVars,
                   callVars, depVars>>
    /\ UNCHANGED <<instVars, runVars>>
    /\ UNCHANGED cfgVars

WFinally(w) == WFinallyBody(w) /\ UNCHANGED lockVars

\* downloads.py 373-374: completed_jobs += 1 and the done event
WReportBody(w) ==
    /\ wpc[w] = "report"
    /\ Len(gui_queue) < pendingLimit
    /\ completed_jobs' = completed_jobs + 1
    /\ gui_queue' = Append(gui_queue, DoneEv(wjob[w], wfinal[w]))
    /\ doneLog' = LogDone(doneLog, wjob[w], wfinal[w])
    /\ donesSinceReset' = donesSinceReset + 1
    /\ wpc' = [wpc EXCEPT ![w] = "loop"]
    /\ wjob' = [wjob EXCEPT ![w] = NoJob]
    /\ wfinal' = [wfinal EXCEPT ![w] = "Failed"]
    /\ UNCHANGED <<stop_event, job_queue, url_processing_queue, url_unfinished, total_jobs,
                   active_processes, max_concurrent_downloads, werr, wlines, wline, proc,
                   uVars, monitors, mainVars, ctlVars, synthetic, nextId, urlDoneEvents,
                   activeAtStop, callVars, depVars>>
    /\ UNCHANGED <<instVars, runVars>>
    /\ UNCHANGED cfgVars

WReport(w) == WReportBody(w) /\ UNCHANGED lockVars

\* ---------------------------------------------------------------- URL processors
\* results of URLInfoExtractor.get_video_count / get_single_video_title: an item
\* count, a URLExtractionError, or a DownloadCancelledError when the probe saw the
\* stop signal
MaxCount == 2
ProbeResults == {[kind |-> "count", n |-> c] : c \in 0..MaxCount}
                   \cup {[kind |-> "error", n |-> 0], [kind |-> "cancelled", n |-> 0]}
TitleResults == {"title", "error", "cancelled"}

\* _url_processor_worker, downloads.py 176: while not self.stop_event.is_set()
ULoop(u) ==
    /\ upc[u] = "loop"
    /\ upc' = [upc EXCEPT ![u] = IF stop_event THEN "dead" ELSE "get"]
    /\ uowed' = [uowed EXCEPT ![u] = 0]
    /\ UNCHANGED <<dmVars, wVars, ucount, uidx, monitors, mainVars, gui_queue, ctlVars,
                   synthetic, nextId, histVars, callVars, depVars>>
    /\ UNCHANGED <<instVars, runVars, lockVars>>
    /\ UNCHANGED cfgVars

\* downloads.py 178, 217-218: url_processing_queue.get(timeout=1), queue.Empty -> break
UGet(u) ==
    /\ upc[u] = "get"
    /\ IF url_processing_queue > 0
       THEN /\ url_processing_queue' = url_processing_queue - 1
            /\ upc' = [upc EXCEPT ![u] = "probe"]
       ELSE /\ upc' = [upc EXCEPT ![u] = "dead"]
            /\ UNCHANGED url_processing_queue
    /\ UNCHANGED <<stop_event, job_queue, url_unfinished, completed_jobs, total_jobs,
                   active_processes, max_concurrent_downloads, wVars, ucount, uidx,
                   uowed, monitors, mainVars, gui_queue, ctlVars, synthetic, nextId,
                   histVars, callVars, depVars>>
    /\ UNCHANGED <<instVars, runVars, lockVars>>
    /\ UNCHANGED cfgVars

\* the change of total_jobs for a probe result (downloads.py 185-187)
TotalAfterProbe(total, r) == IF r.kind = "count" /\ r.n > 0 THEN total + r.n ELSE total

\* downloads.py 207-212: the synthetic job of a URLExtractionError; task_done (216)
SyntheticJob(u, next) ==
    /\ nextId <= MaxJobs
    /\ gui_queue' = gui_queue \o <<AddJobEv(nextId, "Error: msg", "N/A"), DoneEv(nextId, "Failed")>>
    /\ doneLog' = LogDone(doneLog, nextId, "Failed")
    /\ donesSinceReset' = donesSinceReset + 1
    /\ synthetic' = synthetic \cup {nextId}
    /\ nextId' = nextId + 1
    /\ url_unfinished' = url_unfinished - 1
    /\ upc' = [upc EXCEPT ![u] = next]

\* downloads.py 182-188 and the handlers 205-216: get_video_count, total_jobs += count
UProbe(u) ==
    /\ upc[u] = "probe"
    /\ Len(gui_queue) < pendingLimit
    /\ \E r \in ProbeResults :
        /\ r.kind = "cancelled" => stop_event
        /\ r.kind = "count" => nextId + r.n - 1 <= MaxJobs
        /\ total_jobs' = TotalAfterProbe(total_jobs, r)
        /\ uowed' = [uowed EXCEPT ![u] = (TotalAfterProbe(total_jobs, r) - total_jobs)
                                            - (IF r.kind = "error" THEN 1 ELSE 0)]
        /\ ucount' = [ucount EXCEPT ![u] = IF r.kind = "count" /\ r.n > 1 THEN r.n ELSE 0]
        /\ uidx' = [uidx EXCEPT ![u] = IF r.kind = "count" /\ r.n > 1 THEN 1 ELSE 0]
        /\ IF r.kind = "error"
           THEN SyntheticJob(u, "loop")
           ELSE /\ upc' = [upc EXCEPT ![u] =
                             IF r.kind = "count" /\ r.n = 1 THEN "title"
                             ELSE IF r.kind = "count" /\ r.n > 1 THEN "fanout"
                             ELSE "loop"]
                /\ url_unfinished' =
                       IF r.kind = "count" /\ r.n > 0 THEN url_unfinished ELSE url_unfinished - 1
                /\ UNCHANGED <<gui_queue, doneLog, donesSinceReset, synthetic, nextId>>
    /\ UNCHANGED <<stop_event, job_queue, url_processing_queue, completed_jobs,
                   active_processes, max_concurrent_downloads, wVars, monitors, mainVars,
                   ctlVars, urlDoneEvents, activeAtStop, callVars, depVars>>
    /\ UNCHANGED <<instVars, runVars, lockVars>>
    /\ UNCHANGED cfgVars

\* downloads.py 190-194: get_single_video_title, then the job is created, announced
\* and queued; 205-216 when the title probe raises
UTitle(u) ==
    /\ upc[u] = "title"
    /\ Len(gui_queue) < pendingLimit
    /\ \E r \in TitleResults :
        /\ r = "cancelled" => stop_event
        /\ CASE r = "title" ->
                  /\ nextId <= MaxJobs
                  /\ gui_queue' = Append(gui_queue, AddJobEv(nextId, "Queued", "0%"))
                  /\ job_queue' = Append(job_queue, nextId)
                  /\ nextId' = nextId + 1
                  /\ url_unfinished' = url_unfinished - 1
                  /\ upc' = [upc EXCEPT ![u] = "loop"]
                  /\ uowed' = [uowed EXCEPT ![u] = @ - 1]
                  /\ UNCHANGED <<doneLog, donesSinceReset, synthetic>>
             [] r = "error" ->
                  /\ SyntheticJob(u, "loop")
                  /\ uowed' = [uowed EXCEPT ![u] = @ - 1]
                  /\ UNCHANGED job_queue
             [] OTHER ->
                  /\ url_unfinished' = url_unfinished - 1
                  /\ upc' = [upc EXCEPT ![u] = "loop"]
                  /\ UNCHANGED <<gui_queue, job_queue, nextId, doneLog, donesSinceReset,
                                 synthetic, uowed>>
    /\ UNCHANGED <<stop_event, url_processing_queue, completed_jobs, total_jobs,
                   active_processes, max_concurrent_downloads, wVars, ucount, uidx,
                   monitors, mainVars, ctlVars, urlDoneEvents, activeAtStop, callVars, depVars>>
    /\ UNCHANGED <<instVars, runVars, lockVars>>
    /\ UNCHANGED cfgVars

\* downloads.py 196-203: one iteration of the playlist loop, or its end (task_done)
UFanout(u) ==
    /\ upc[u] = "fanout"
    /\ Len(gui_queue) < pendingLimit
    /\ IF stop_event \/ uidx[u] > ucount[u]
       THEN /\ url_unfinished' = url_unfinished - 1
            /\ upc' = [upc EXCEPT ![u] = "loop"]
            /\ uidx' = [uidx EXCEPT ![u] = 0]
            /\ ucount' = [ucount EXCEPT ![u] = 0]
            /\ UNCHANGED <<gui_queue, job_queue, nextId, uowed>>
       ELSE /\ nextId <= MaxJobs
            /\ gui_queue' = Append(gui_queue, AddJobEv(nextId, "Queued", "0%"))
            /\ job_queue' = Append(job_queue, nextId)
            /\ nextId' = nextId + 1
            /\ uidx' = [uidx EXCEPT ![u] = @ + 1]
            /\ uowed' = [uowed EXCEPT ![u] = @ - 1]
            /\ UNCHANGED <<url_unfinished, upc, ucount>>
    /\ UNCHANGED <<stop_event, url_processing_queue, completed_jobs, total_jobs,
                   active_processes, max_concurrent_downloads, wVars, monitors,
                   mainVars, ctlVars, synthetic, histVars, callVars, depVars>>
    /\ UNCHANGED <<instVars, runVars, lockVars>>
    /\ UNCHANGED cfgVars

\* monitor_url_queue, downloads.py 87-90: join() returns when no task is unfinished
MonitorDone ==
    /\ monitors > 0
    /\ url_unfinished = 0
    /\ monitors' = monitors - 1
    /\ urlDoneEvents' = IF stop_event THEN urlDoneEvents ELSE urlDoneEvents + 1
    /\ UNCHANGED <<dmVars, wVars, uVars, mainVars, gui_queue, ctlVars, synthetic, nextId,
                   doneLog, donesSinceReset, activeAtStop, callVars, depVars>>
    /\ UNCHANGED <<instVars, runVars, lockVars>>
    /\ UNCHANGED cfgVars

\* ---------------------------------------------------------------- dependency installer
\* save_path of _download_file_with_progress: APP_PATH/yt-dlp itself for yt-dlp
\* (dependencies.py 284), the archive in the temp directory for ffmpeg (325)
SavePath == IF idep = "yt-dlp" THEN canonical["yt-dlp"] ELSE archive

\* save_path holds f afterwards; when the install thread ends, the temp directory of
\* _download_ffmpeg_thread is destroyed (322)
SetSavePath(f, ended) ==
    /\ canonical' = IF idep = "yt-dlp" THEN [canonical EXCEPT !["yt-dlp"] = f] ELSE canonical
    /\ archive' = IF idep = "ffmpeg" /\ ~ended THEN f ELSE Absent

DependencyDoneUnlessFile(log, d, result) ==
    IF result = "file" THEN log
    ELSE Append(log, [type |-> d, success |-> result = "success", error |-> result])

\* self.gui_queue.put(('dependency_done', {...})) (279, 292-304, 315, 350-369)
DependencyDone(log, d, result) ==
    Append(log, [type |-> d, success |-> result = "success", error |-> result])

\* the install thread ends with a dependency_done event (279, 292-304, 315, 350-369)
Finish(result) ==
    /\ ipc' = "idle"
    /\ dep_result' = result
    /\ dep_done' = DependencyDone(dep_done, idep, result)
    /\ chunk_files' = <<>>
    /\ chunk_raised' = {}

OpenForAppend(f) == IF f.kind = "data" THEN f ELSE Data(<<>>)

\* save_path.open('wb') (188, 250, 265): the file is created or truncated
OpenForWrite(f) == Data(<<>>)

\* ranges of total \div DOWNLOAD_CHUNKS bytes each, the last one like the others
ChunkRangeNoRemainder(i, total) ==
    <<i * (total \div DOWNLOAD_CHUNKS), (i + 1) * (total \div DOWNLOAD_CHUNKS) - 1>>

\* _download_file_chunked 208-210: the byte range of chunk i
ChunkRange(i, total) ==
    LET chunk_size == total \div DOWNLOAD_CHUNKS
    IN IF i < DOWNLOAD_CHUNKS - 1
       THEN <<i * chunk_size, (i + 1) * chunk_size - 1>>
       ELSE <<(DOWNLOAD_CHUNKS - 1) * chunk_size, total - 1>>

\* _assemble_chunks 265-268: the chunk files copied in order into the opened file
RECURSIVE Assemble(_, _)
Assemble(out, files) ==
    IF files = <<>> THEN out ELSE Assemble(Concat(out, Head(files)), Tail(files))

\* the chunk files of a chunked download in which every range arrived in full
FullChunks(total) ==
    [i \in 1..DOWNLOAD_CHUNKS |->
        AppendBytes(<<>>, ChunkRange(i - 1, total)[1],
                    ChunkRange(i - 1, total)[2] - ChunkRange(i - 1, total)[1] + 1)]

\* install_or_update_yt_dlp / download_ffmpeg (270-272, 306-308): the progress window
\* is open (gui.py 140-142) and the installer thread is started; server is the
\* server the thread will meet
InstallStart(d, server) ==
    /\ ipc = "idle"
    /\ installsLeft > 0
    /\ installsLeft' = installsLeft - 1
    /\ idep' = d
    /\ srv' = server
    /\ canon_before' = canonical[d]
    /\ ipc' = "requested"
    /\ dep_done' = <<>>
    /\ cancel_issued' = FALSE
    /\ total_size' = 0
    /\ attempt' = 0
    /\ bytes_downloaded' = 0
    /\ fallback' = "none"
    /\ chunk_files' = <<>>
    /\ chunk_raised' = {}
    /\ dep_result' = "none"
    /\ stream_end' = "none"
    /\ archive' = Absent
    /\ UNCHANGED <<dep_stop_event, canonical, appVars, runVars, lockVars>>

\* whether sys.platform is a key of YT_DLP_URLS / FFMPEG_URLS (277-278, 313-314)
Platforms == {"supported", "unsupported"}

\* the first statements of the installer thread (276-280, 312-316): the stop signal
\* is cleared, an unsupported platform ends the install
InstallThreadStart ==
    /\ ipc = "requested"
    /\ dep_stop_event' = FALSE
    /\ \E platform \in Platforms :
          IF platform = "supported"
          THEN /\ ipc' = "head"
               /\ UNCHANGED <<dep_result, dep_done, chunk_files, chunk_raised>>
          ELSE Finish("unsupported")
    /\ UNCHANGED <<idep, canonical, archive, srv, total_size, bytes_downloaded, attempt,
                   fallback, canon_before, stream_end, installsLeft, cancel_issued,
                   appVars, runVars, lockVars>>

\* DependencyManager.cancel_download (44-47), while the progress window is open
CancelDownload ==
    /\ ipc # "idle"
    /\ ~dep_stop_event
    /\ dep_stop_event' = TRUE
    /\ cancel_issued' = TRUE
    /\ UNCHANGED <<ipc, idep, canonical, archive, srv, total_size, bytes_downloaded, attempt, fallback,
                   chunk_files, chunk_raised, dep_result, dep_done, canon_before, stream_end,
                   installsLeft, appVars, runVars, lockVars>>

\* _download_file_with_progress 141-151: the HEAD probe and the choice of the path
HeadProbe ==
    /\ ipc = "head"
    /\ LET size == IF srv.length THEN srv.size ELSE 0
           use_chunked == size > CHUNKED_DOWNLOAD_THRESHOLD /\ srv.ranges
       IN /\ total_size' = size
          /\ ipc' = IF use_chunked THEN "chunks" ELSE "single"
    /\ UNCHANGED <<idep, dep_stop_event, canonical, archive, srv, attempt, fallback,
                   bytes_downloaded, chunk_files, chunk_raised, dep_result, dep_done, canon_before,
                   stream_end, installsLeft, cancel_issued, appVars, runVars, lockVars>>

\* a requests.exceptions.RequestException inside _download_file_single_stream with
\* save_path holding f (201-204): the next attempt, or the exception leaves the
\* method: the first time it is caught at 163-168 (save_path is deleted, the single
\* stream is started again), the second time it ends the install (296-298, 355-357)
RequestRaised(f) ==
    IF attempt < DOWNLOAD_RETRY_ATTEMPTS - 1
    THEN /\ attempt' = attempt + 1
         /\ ipc' = "single"
         /\ SetSavePath(f, FALSE)
         /\ UNCHANGED <<fallback, dep_result, dep_done, chunk_files, chunk_raised>>
    ELSE IF fallback = "none"
    THEN /\ fallback' = "single"
         /\ attempt' = 0
         /\ ipc' = "single"
         /\ SetSavePath(Absent, FALSE)
         /\ UNCHANGED <<dep_result, dep_done, chunk_files, chunk_raised>>
    ELSE /\ Finish("network")
         /\ SetSavePath(f, TRUE)
         /\ UNCHANGED <<attempt, fallback>>

\* _download_file_single_stream 177-188: the cancellation check of an attempt, the
\* GET request (it may raise) and the opening of save_path
SingleOpen ==
    /\ ipc = "single"
    /\ IF dep_stop_event
       THEN /\ Finish("cancelled")
            /\ SetSavePath(SavePath, TRUE)
            /\ UNCHANGED <<attempt, fallback>>
       ELSE \/ /\ ipc' = "stream"
               /\ SetSavePath(OpenForWrite(SavePath), FALSE)
               /\ UNCHANGED <<attempt, fallback, dep_result, dep_done, chunk_files, chunk_raised>>
            \/ RequestRaised(SavePath)
    /\ stream_end' = "none"
    /\ bytes_downloaded' = 0
    /\ UNCHANGED <<idep, dep_stop_event, srv, total_size, canon_before, installsLeft, cancel_issued,
                   appVars, runVars, lockVars>>

\* how the body of a response goes on: one more part of PartSize bytes, all the bytes
\* that remain, the end of the stream before the last byte without an exception, or
\* a RequestException
StreamEvents == {"part", "rest", "early", "reset"}

\* _download_file_single_stream 189-199: the loop over r.iter_content
SingleStream ==
    /\ ipc = "stream"
    /\ LET written == bytes_downloaded
       IN IF dep_stop_event
          THEN /\ Finish("cancelled")
               /\ SetSavePath(SavePath, TRUE)
               /\ UNCHANGED <<attempt, fallback, stream_end, bytes_downloaded>>
          ELSE \E e \in StreamEvents :
                 CASE e = "part" ->
                        /\ written = 0
                        /\ SetSavePath(Data(AppendBytes(SavePath.segs, written, PartSize)), FALSE)
                        /\ bytes_downloaded' = written + PartSize
                        /\ UNCHANGED <<ipc, attempt, fallback, dep_result, dep_done, chunk_files,
                                       chunk_raised, stream_end>>
                   [] e = "rest" ->
                        /\ SetSavePath(Data(AppendBytes(SavePath.segs, written,
                                                        srv.size - written)), FALSE)
                        /\ ipc' = "fetched"
                        /\ stream_end' = "complete"
                        /\ bytes_downloaded' = srv.size
                        /\ UNCHANGED <<attempt, fallback, dep_result, dep_done, chunk_files, chunk_raised>>
                   [] e = "early" ->
                        /\ SetSavePath(SavePath, FALSE)
                        /\ ipc' = "fetched"
                        /\ stream_end' = "early"
                        /\ UNCHANGED bytes_downloaded
                        /\ UNCHANGED <<attempt, fallback, dep_result, dep_done, chunk_files, chunk_raised>>
                   [] OTHER ->
                        /\ RequestRaised(SavePath)
                        /\ UNCHANGED <<stream_end, bytes_downloaded>>
    /\ UNCHANGED <<idep, dep_stop_event, srv, total_size, canon_before, installsLeft, cancel_issued,
                   appVars, runVars, lockVars>>

\* what becomes of one chunk thread (_download_chunk 240-261): the range arrives in
\* full; the 206 response carries fewer bytes than the range; the last of the three
\* attempts raises a RequestException; the thread sees the stop signal
ChunkEvents == {"full", "fewer", "failed"}

\* _download_chunk for the next chunk file (the chunk threads share nothing but the
\* stop signal, so they are taken in the order of their index)
DownloadChunk ==
    /\ ipc = "chunks"
    /\ Len(chunk_files) < DOWNLOAD_CHUNKS
    /\ LET r == ChunkRange(Len(chunk_files), total_size)
       IN IF dep_stop_event
          THEN /\ chunk_files' = Append(chunk_files, <<>>)
               /\ chunk_raised' = chunk_raised \cup {"cancelled"}
               /\ UNCHANGED stream_end
          ELSE \E e \in ChunkEvents :
                 /\ chunk_files' = Append(chunk_files,
                        AppendBytes(<<>>, r[1], IF e = "full" THEN r[2] - r[1] + 1 ELSE PartSize))
                 /\ chunk_raised' = IF e = "failed" THEN chunk_raised \cup {"request"}
                                    ELSE chunk_raised
                 /\ stream_end' = IF e = "fewer" THEN "early" ELSE stream_end
    /\ UNCHANGED <<ipc, idep, dep_stop_event, canonical, archive, srv, total_size, bytes_downloaded, attempt,
                   fallback, dep_result, dep_done, canon_before, installsLeft, cancel_issued, appVars, runVars, lockVars>>

\* _download_file_chunked 232-238 once every chunk thread has ended: future.result()
\* raises an exception of a chunk (a RequestException is caught at 163-168: save_path
\* is deleted and the single stream started; a DownloadCancelledError ends the
\* install), else the stop signal is checked (235), else the chunks are assembled
ChunksJoin ==
    /\ ipc = "chunks"
    /\ Len(chunk_files) = DOWNLOAD_CHUNKS
    /\ IF chunk_raised # {}
       THEN \E x \in chunk_raised :
              IF x = "request"
              THEN /\ fallback' = "chunked"
                   /\ ipc' = "single"
                   /\ SetSavePath(Absent, FALSE)
                   /\ chunk_files' = <<>>
                   /\ chunk_raised' = {}
                   /\ stream_end' = "none"
                   /\ UNCHANGED <<dep_result, dep_done>>
              ELSE /\ Finish("cancelled")
                   /\ SetSavePath(SavePath, TRUE)
                   /\ UNCHANGED <<fallback, stream_end>>
       ELSE IF dep_stop_event
       THEN /\ Finish("cancelled")
            /\ SetSavePath(SavePath, TRUE)
            /\ UNCHANGED <<fallback, stream_end>>
       ELSE /\ SetSavePath(Data(Assemble(OpenForWrite(SavePath).segs, chunk_files)), FALSE)
            /\ ipc' = "fetched"
            /\ stream_end' = IF stream_end = "early" THEN "early" ELSE "complete"
            /\ chunk_files' = <<>>
            /\ UNCHANGED <<fallback, dep_result, dep_done, chunk_raised>>
    /\ UNCHANGED <<idep, dep_stop_event, srv, total_size, bytes_downloaded, attempt, canon_before,
                   installsLeft, cancel_issued, appVars, runVars, lockVars>>

\* _install_or_update_yt_dlp_thread 288-292: chmod, yt_dlp_path, dependency_done;
\* or chmod raises OSError (299-301)
YtDlpInstalled ==
    /\ ipc = "fetched"
    /\ idep = "yt-dlp"
    /\ \E chmod_ok \in BOOLEAN : Finish(IF chmod_ok THEN "success" ELSE "file")
    /\ UNCHANGED <<idep, dep_stop_event, canonical, archive, srv, total_size, bytes_downloaded, attempt,
                   fallback, canon_before, stream_end, installsLeft, cancel_issued, appVars, runVars, lockVars>>

\* what the extraction of a whole archive gives: the executable is found in it, it
\* is not (FileNotFoundError, 342, 361-363), or extractall raises an exception that
\* only `except Exception` catches (367-369)
ExtractOutcomes == {"found", "missing", "unexpected"}

\* _download_ffmpeg_thread 330-342: the archive is extracted and the executable
\* located; an archive that is not the whole resource cannot be read (358-360)
FfmpegExtract ==
    /\ ipc = "fetched"
    /\ idep = "ffmpeg"
    /\ IF archive = Data(Body(srv.size))
       THEN \E o \in ExtractOutcomes :
              IF o = "found"
              THEN /\ ipc' = "unlink"
                   /\ UNCHANGED <<archive, dep_result, dep_done, chunk_files, chunk_raised>>
              ELSE /\ Finish(o)
                   /\ archive' = Absent
       ELSE /\ Finish("archive")
            /\ archive' = Absent
    /\ UNCHANGED <<idep, dep_stop_event, canonical, srv, total_size, bytes_downloaded, attempt, fallback,
                   canon_before, stream_end, installsLeft, cancel_issued, appVars, runVars, lockVars>>

\* _download_ffmpeg_thread 344: if final_ffmpeg_path.exists(): final_ffmpeg_path.unlink()
FfmpegUnlink ==
    /\ ipc = "unlink"
    /\ canonical' = [canonical EXCEPT !["ffmpeg"] = Absent]
    /\ ipc' = "move"
    /\ UNCHANGED <<idep, dep_stop_event, archive, srv, total_size, bytes_downloaded, attempt, fallback,
                   chunk_files, chunk_raised, dep_result, dep_done, canon_before, stream_end,
                   installsLeft, cancel_issued, appVars, runVars, lockVars>>

\* _download_ffmpeg_thread 345-350: shutil.move to the canonical path, chmod,
\* dependency_done; or shutil.move raises OSError (364-366)
FfmpegMove ==
    /\ ipc = "move"
    /\ \E moved \in BOOLEAN :
          /\ canonical' = IF moved THEN [canonical EXCEPT !["ffmpeg"] = Extracted]
                          ELSE canonical
          /\ Finish(IF moved THEN "success" ELSE "file")
    /\ archive' = Absent
    /\ UNCHANGED <<idep, dep_stop_event, srv, total_size, bytes_downloaded, attempt, fallback, canon_before,
                   stream_end, installsLeft, cancel_issued, appVars, runVars, lockVars>>

\* ---------------------------------------------------------------- specification
Next ==
    \/ \E n \in 1..MaxUrls : CtlStartDownloads(n, DefaultOptions)
    \/ \E S \in SUBSET JobIds : CtlRetry(S)
    \/ \E n \in 1..MaxConcurrent : CtlSaveSettings(n)
    \/ CtlClearCompleted
    \/ CtlHandleEvent
    \/ StopSet
    \/ StopDrainJobs
    \/ StopDrainUrls
    \/ StopSnapshot
    \/ StopTerminate
    \/ StopReset
    \/ \E w \in Workers : WLoop(w)
    \/ \E w \in Workers : WGet(w)
    \/ \E w \in Workers : WGot(w)
    \/ \E w \in Workers : WSpawn(w)
    \/ \E w \in Workers : WRead(w)
    \/ \E w \in Workers : WParse(w)
    \/ \E w \in Workers : WWait(w)
    \/ \E w \in Workers : WFinally(w)
    \/ \E w \in Workers : WReport(w)
    \/ \E u \in UProcs : ULoop(u)
    \/ \E u \in UProcs : UGet(u)
    \/ \E u \in UProcs : UProbe(u)
    \/ \E u \in UProcs : UTitle(u)
    \/ \E u \in UProcs : UFanout(u)
    \/ MonitorDone

Spec == Init /\ [][Next]_vars

\* start / stop / start sessions: Next without add_jobs_for_retry, save_settings and
\* clear_completed_jobs
NextRestart ==
    \/ \E n \in 1..MaxUrls : CtlStartDownloads(n, DefaultOptions)
    \/ CtlHandleEvent
    \/ StopSet
    \/ StopDrainJobs
    \/ StopDrainUrls
    \/ StopSnapshot
    \/ StopTerminate
    \/ StopReset
    \/ \E w \in Workers : WLoop(w)
    \/ \E w \in Workers : WGet(w)
    \/ \E w \in Workers : WGot(w)
    \/ \E w \in Workers : WSpawn(w)
    \/ \E w \in Workers : WRead(w)
    \/ \E w \in Workers : WParse(w)
    \/ \E w \in Workers : WWait(w)
    \/ \E w \in Workers : WFinally(w)
    \/ \E w \in Workers : WReport(w)
    \/ \E u \in UProcs : ULoop(u)
    \/ \E u \in UProcs : UGet(u)
    \/ \E u \in UProcs : UProbe(u)
    \/ \E u \in UProcs : UTitle(u)
    \/ \E u \in UProcs : UFanout(u)
    \/ MonitorDone

SpecRestart == InitRestart /\ [][NextRestart]_vars

\* start (with any options) / ffmpeg install / stop: Next without add_jobs_for_retry,
\* save_settings and clear_completed_jobs, with the ffmpeg install
NextFfmpeg ==
    \/ \E n \in 1..MaxUrls : \E opts \in Options : CtlStartDownloads(n, opts)
    \/ \E success \in BOOLEAN : CtlDependencyResult(success)
    \/ CtlHandleEvent
    \/ StopSet
    \/ StopDrainJobs
    \/ StopDrainUrls
    \/ StopSnapshot
    \/ StopTerminate
    \/ StopReset
    \/ \E w \in Workers : WLoop(w)
    \/ \E w \in Workers : WGet(w)
    \/ \E w \in Workers : WGot(w)
    \/ \E w \in Workers : WSpawn(w)
    \/ \E w \in Workers : WRead(w)
    \/ \E w \in Workers : WParse(w)
    \/ \E w \in Workers : WWait(w)
    \/ \E w \in Workers : WFinally(w)
    \/ \E w \in Workers : WReport(w)
    \/ \E u \in UProcs : ULoop(u)
    \/ \E u \in UProcs : UGet(u)
    \/ \E u \in UProcs : UProbe(u)
    \/ \E u \in UProcs : UTitle(u)
    \/ \E u \in UProcs : UFanout(u)
    \/ MonitorDone

SpecFfmpeg == InitFfmpeg /\ [][NextFfmpeg]_vars

\* the dependency installer alone: an install of yt-dlp or ffmpeg from a server of any
\* behaviour, over an existing executable or none, which the user may cancel
InitInstall ==
    /\ Constructed(1)
    /\ RunIdle
    /\ LocksFree
    /\ SettingsFromFile(FileWith(1))
    /\ callsLeft = 0
    /\ pendingLimit = MaxPending
    /\ retry_call = NoRetryCall
    /\ ffmpeg_path = TRUE
    /\ pending_download_task = NoTask
    /\ dm_options = NoOptions
    /\ InstallIdle
    /\ canonical \in [Deps -> {Absent, OldFile}]
    /\ installsLeft = MaxInstalls

NextInstall ==
    \/ \E d \in Deps : \E server \in Servers : InstallStart(d, server)
    \/ InstallThreadStart
    \/ CancelDownload
    \/ HeadProbe
    \/ SingleOpen
    \/ SingleStream
    \/ DownloadChunk
    \/ ChunksJoin
    \/ YtDlpInstalled
    \/ FfmpegExtract
    \/ FfmpegUnlink
    \/ FfmpegMove

SpecInstall == InitInstall /\ [][NextInstall]_vars

\* installs from servers that announce a size just above the chunking threshold and
\* accept ranges, for every such size
ChunkedServers ==
    [size : (CHUNKED_DOWNLOAD_THRESHOLD + 1)..(CHUNKED_DOWNLOAD_THRESHOLD + MaxExtraBytes),
     length : {TRUE}, ranges : {TRUE}]

NextChunks ==
    \/ \E d \in Deps : \E server \in ChunkedServers : InstallStart(d, server)
    \/ InstallThreadStart
    \/ CancelDownload
    \/ HeadProbe
    \/ SingleOpen
    \/ SingleStream
    \/ DownloadChunk
    \/ ChunksJoin
    \/ YtDlpInstalled
    \/ FfmpegExtract
    \/ FfmpegUnlink
    \/ FfmpegMove

SpecChunks == InitInstall /\ [][NextChunks]_vars

\* AppController.save_settings called with any template and any number
SaveSettingsCall(data) ==
    /\ mainpc = "idle"
    /\ callsLeft > 0
    /\ callsLeft' = callsLeft - 1
    /\ SaveSettings(data)
    /\ UNCHANGED <<pendingLimit, retry_call, depVars>>
    /\ UNCHANGED <<stop_event, job_queue, url_processing_queue, url_unfinished,
                   completed_jobs, total_jobs, active_processes, wVars, uVars, monitors,
                   mainVars, gui_queue, job_store, is_downloading, synthetic, nextId,
                   histVars, instVars, runVars, lockVars>>

\* the program is closed while nothing is downloaded and started again: main.py
\* 46-56, ConfigManager.load and the constructors
AppRestart ==
    /\ mainpc = "idle"
    /\ ~is_downloading
    /\ callsLeft > 0
    /\ callsLeft' = callsLeft - 1
    /\ filename_template' = Load(config_file).filename_template
    /\ config_max' = Load(config_file).max_concurrent_downloads
    /\ config_file' = FileAfterLoad(config_file)
    /\ max_concurrent_downloads' = DefaultMaxConcurrent
    /\ UNCHANGED <<pendingLimit, retry_call, depVars>>
    /\ UNCHANGED <<stop_event, job_queue, url_processing_queue, url_unfinished,
                   completed_jobs, total_jobs, active_processes, wVars, uVars, monitors,
                   mainVars, gui_queue, job_store, is_downloading, synthetic, nextId,
                   histVars, instVars, runVars, lockVars>>

\* the settings alone: the program starts with any configuration file, the settings
\* are saved with any values, the program is restarted
InitSettings ==
    \E f \in ConfigFiles :
        /\ Constructed(Load(f).max_concurrent_downloads)
        /\ RunIdle
        /\ LocksFree
        /\ SettingsFromFile(f)
        /\ callsLeft = MaxSettingsCalls
        /\ pendingLimit = MaxPending
        /\ retry_call = NoRetryCall
        /\ ffmpeg_path = TRUE
        /\ pending_download_task = NoTask
        /\ dm_options = NoOptions
        /\ InstallIdle
        /\ canonical = [d \in Deps |-> OldFile]
        /\ installsLeft = 0

NextSettings ==
    \/ \E t \in Templates : \E n \in SettingInputs :
          SaveSettingsCall([filename_template |-> t, max_concurrent_downloads |-> n])
    \/ AppRestart

SpecSettings == InitSettings /\ [][NextSettings]_vars

\* one session of up to MaxCloseUrls URLs with one download worker, and the user
\* closing the program at any moment
InitClose ==
    /\ Constructed(1)
    /\ RunIdle
    /\ LocksFree
    /\ SettingsFromFile(FileWith(1))
    /\ callsLeft = 2
    /\ pendingLimit = MaxPending
    /\ retry_call = NoRetryCall
    /\ ffmpeg_path = TRUE
    /\ pending_download_task = NoTask
    /\ dm_options = NoOptions
    /\ InstallIdle
    /\ canonical = [d \in Deps |-> OldFile]
    /\ installsLeft = 0

NextClose ==
    \/ \E n \in 1..MaxCloseUrls : CtlStartDownloads(n, DefaultOptions)
    \/ CtlAppClosing
    \/ CtlHandleEvent
    \/ StopDrainJobs
    \/ StopDrainUrls
    \/ StopSnapshot
    \/ StopTerminate
    \/ StopReset
    \/ \E w \in Workers : WLoop(w)
    \/ \E w \in Workers : WGet(w)
    \/ \E w \in Workers : WGot(w)
    \/ \E w \in Workers : WSpawn(w)
    \/ \E w \in Workers : WRead(w)
    \/ \E w \in Workers : WParse(w)
    \/ \E w \in Workers : WWait(w)
    \/ \E w \in Workers : WFinally(w)
    \/ \E w \in Workers : WReport(w)
    \/ \E u \in UProcs : ULoop(u)
    \/ \E u \in UProcs : UGet(u)
    \/ \E u \in UProcs : UProbe(u)
    \/ \E u \in UProcs : UTitle(u)
    \/ \E u \in UProcs : UFanout(u)
    \/ MonitorDone

SpecClose == InitClose /\ [][NextClose]_vars

\* sessions, retries and stops with one download worker, the worker's polling of the
\* job queue made explicit; the threads and the event loop are scheduled fairly
InitWorkers ==
    /\ Constructed(1)
    /\ RunIdle
    /\ LocksFree
    /\ SettingsFromFile(FileWith(1))
    /\ callsLeft = 2
    /\ pendingLimit = MaxPending
    /\ retry_call = NoRetryCall
    /\ ffmpeg_path = TRUE
    /\ pending_download_task = NoTask
    /\ dm_options = NoOptions
    /\ InstallIdle
    /\ canonical = [d \in Deps |-> OldFile]
    /\ installsLeft = 0

NextWorkers ==
    \/ \E n \in 1..MaxUrls : CtlStartDownloads(n, DefaultOptions)
    \/ \E ids \in SUBSET JobIds : CtlRetry(ids)
    \/ CtlHandleEvent
    \/ StopSet
    \/ StopDrainJobs
    \/ StopDrainUrls
    \/ StopSnapshot
    \/ StopTerminate
    \/ StopReset
    \/ \E w \in Workers : WLoop(w)
    \/ \E w \in Workers : WGet(w)
    \/ \E w \in Workers : WGetTimeout(w)
    \/ \E w \in Workers : WGot(w)
    \/ \E w \in Workers : WSpawn(w)
    \/ \E w \in Workers : WRead(w)
    \/ \E w \in Workers : WParse(w)
    \/ \E w \in Workers : WWait(w)
    \/ \E w \in Workers : WFinally(w)
    \/ \E w \in Workers : WReport(w)
    \/ \E u \in UProcs : ULoop(u)
    \/ \E u \in UProcs : UGet(u)
    \/ \E u \in UProcs : UProbe(u)
    \/ \E u \in UProcs : UTitle(u)
    \/ \E u \in UProcs : UFanout(u)
    \/ MonitorDone

WorkerStep ==
    \E w \in Workers :
        \/ WLoop(w)
        \/ WGet(w)
        \/ WGot(w)
        \/ WSpawn(w)
        \/ WRead(w)
        \/ WParse(w)
        \/ WWait(w)
        \/ WFinally(w)
        \/ WReport(w)

SpecWorkers ==
    /\ InitWorkers
    /\ [][NextWorkers]_vars
    /\ WF_vars(WorkerStep)
    /\ WF_vars(CtlHandleEvent)
    /\ WF_vars(MonitorDone)

\* _run_download_process following one yt-dlp process to its end without a stop,
\* for every output and return code tried
InitRun ==
    /\ Constructed(1)
    /\ SettingsFromFile(FileWith(1))
    /\ callsLeft = 0
    /\ pendingLimit = MaxPending
    /\ retry_call = NoRetryCall
    /\ ffmpeg_path = TRUE
    /\ pending_download_task = NoTask
    /\ dm_options = NoOptions
    /\ InstallIdle
    /\ canonical = [d \in Deps |-> OldFile]
    /\ installsLeft = 0
    /\ LocksFree
    /\ stdout \in Outputs
    /\ return_code \in ReturnCodes
    /\ line_no = 0
    /\ error_message = None
    /\ final_status = StatusFailed
    /\ emitted = <<>>

NextRun ==
    \/ RunLine
    \/ RunWait

SpecRun == InitRun /\ [][NextRun]_vars

\* _run_download_process following a process that prints progress lines: the
\* PROGRESS:: lines of the progress template, yt-dlp's own [download] lines, and
\* lines without a percentage
ProgressValues == {<<"0", ".", "0">>, <<"5", "0", ".", "0">>, <<"1", "0", "0", ".", "0">>}
ProgressLines ==
    {ProgressPrefix \o <<" ">> \o v \o <<"%">> : v \in ProgressValues}
    \cup {DownloadTag \o <<" ", " ">> \o <<"5", "0", ".", "0">> \o <<"%", " ", "o", "f", " ", "3", "M">>,
          DownloadTag \o <<" ", "D", "e", "s", "t", "i", "n", "a", "t", "i", "o", "n", ":", " ", "a">>,
          <<"[", "M", "e", "r", "g", "e", "r", "]", " ", "a">>}
ProgressOutputs == UNION {[1..n -> ProgressLines] : n \in 0..MaxProgressLines}

InitProgress ==
    /\ Constructed(1)
    /\ SettingsFromFile(FileWith(1))
    /\ callsLeft = 0
    /\ pendingLimit = MaxPending
    /\ retry_call = NoRetryCall
    /\ ffmpeg_path = TRUE
    /\ pending_download_task = NoTask
    /\ dm_options = NoOptions
    /\ InstallIdle
    /\ canonical = [d \in Deps |-> OldFile]
    /\ installsLeft = 0
    /\ LocksFree
    /\ stdout \in ProgressOutputs
    /\ return_code = 0
    /\ line_no = 0
    /\ error_message = None
    /\ final_status = StatusFailed
    /\ emitted = <<>>

SpecProgress == InitProgress /\ [][NextRun]_vars

\* sessions of one worker in which the user retries any list of ids and clears the
\* finished jobs
MaxRetryCalls == 3

InitRetry ==
    /\ Constructed(1)
    /\ RunIdle
    /\ LocksFree
    /\ SettingsFromFile(FileWith(1))
    /\ callsLeft = MaxRetryCalls
    /\ pendingLimit = MaxPending
    /\ retry_call = NoRetryCall
    /\ ffmpeg_path = TRUE
    /\ pending_download_task = NoTask
    /\ dm_options = NoOptions
    /\ InstallIdle
    /\ canonical = [d \in Deps |-> OldFile]
    /\ installsLeft = 0

NextRetry ==
    \/ \E n \in 1..MaxUrls : CtlStartDownloads(n, DefaultOptions)
    \/ \E ids \in IdLists : CtlRetryList(ids)
    \/ CtlClearCompleted
    \/ CtlHandleEvent
    \/ \E w \in Workers : WLoop(w)
    \/ \E w \in Workers : WGet(w)
    \/ \E w \in Workers : WGot(w)
    \/ \E w \in Workers : WSpawn(w)
    \/ \E w \in Workers : WRead(w)
    \/ \E w \in Workers : WParse(w)
    \/ \E w \in Workers : WWait(w)
    \/ \E w \in Workers : WFinally(w)
    \/ \E w \in Workers : WReport(w)
    \/ \E u \in UProcs : ULoop(u)
    \/ \E u \in UProcs : UGet(u)
    \/ \E u \in UProcs : UProbe(u)
    \/ \E u \in UProcs : UTitle(u)
    \/ \E u \in UProcs : UFanout(u)
    \/ MonitorDone

SpecRetry == InitRetry /\ [][NextRetry]_vars

\* ---------------------------------------------------------------- locks
\* `with lock:` is entered by a thread when the lock is free; it is left when the
\* block ends, by its last statement or by a return or an exception inside it.
AcquireActive(t) ==
    /\ active_processes_lock = Free
    /\ active_processes_lock' = t
    /\ UNCHANGED <<stats_lock, appVars, instVars, runVars>>

AcquireStats(t) ==
    /\ stats_lock = Free
    /\ stats_lock' = t
    /\ UNCHANGED <<active_processes_lock, appVars, instVars, runVars>>

HolderKept(t) == t

\* the holder of a lock once the thread t has left the with block
HolderAfterWith(t) == Free

\* downloads.py 314: the worker enters the block that spawns and registers; a job
\* without options has raised in _build_yt_dlp_command before (306)
LSpawnAcquire(w) ==
    /\ wpc[w] = "spawn"
    /\ wjob[w] \notin synthetic
    /\ AcquireActive(w)

\* downloads.py 315-317, inside the block, and its end
LSpawn(w) ==
    /\ active_processes_lock = w
    /\ WSpawnBody(w)
    /\ active_processes_lock' = HolderAfterWith(w)
    /\ UNCHANGED stats_lock

\* downloads.py 306, 366: the command of a job without options cannot be built
LBuildRaises(w) ==
    /\ wjob[w] \in synthetic
    /\ WSpawn(w)

\* downloads.py 370: the finally block enters the block that removes the handle
LFinallyAcquire(w) ==
    /\ wpc[w] = "finally"
    /\ AcquireActive(w)

\* downloads.py 371, the end of the block, and the stop check (372)
LFinally(w) ==
    /\ active_processes_lock = w
    /\ WFinallyBody(w)
    /\ active_processes_lock' = HolderAfterWith(w)
    /\ UNCHANGED stats_lock

\* downloads.py 373: the statistics lock is entered
LReportAcquire(w) ==
    /\ wpc[w] = "report"
    /\ AcquireStats(w)

\* downloads.py 373-374: the counter, the end of the block, and the done event
LReport(w) ==
    /\ stats_lock = w
    /\ WReportBody(w)
    /\ stats_lock' = HolderAfterWith(w)
    /\ UNCHANGED active_processes_lock

\* downloads.py 139: stop_all_downloads enters the block of the snapshot
LSnapshotAcquire ==
    /\ mainpc = "snapshot"
    /\ AcquireActive(MainThread)

\* downloads.py 140 and the end of the block
LSnapshot ==
    /\ active_processes_lock = MainThread
    /\ StopSnapshotBody
    /\ active_processes_lock' = HolderAfterWith(MainThread)
    /\ UNCHANGED stats_lock

\* downloads.py 142-163: the next entry of the snapshot; the lock, which the code
\* takes at 163 once the entry's process has been signalled, is taken here when the
\* entry is begun, so the main thread holds it for longer than in the code
LTerminateAcquire ==
    /\ mainpc = "terminate"
    /\ procs_to_terminate # {}
    /\ AcquireActive(MainThread)

\* downloads.py 144-164: the entry is handled and the block of 163 is left
LTerminate ==
    /\ active_processes_lock = MainThread
    /\ StopTerminateBody
    /\ active_processes_lock' = HolderAfterWith(MainThread)
    /\ UNCHANGED stats_lock

\* downloads.py 142: the loop over the snapshot has ended
LTerminateEnd ==
    /\ procs_to_terminate = {}
    /\ StopTerminate

\* downloads.py 167: the statistics lock is entered
LResetAcquire ==
    /\ mainpc = "reset"
    /\ AcquireStats(MainThread)

\* downloads.py 166-168 and the end of the block
LReset ==
    /\ stats_lock = MainThread
    /\ StopResetBody
    /\ stats_lock' = HolderAfterWith(MainThread)
    /\ UNCHANGED active_processes_lock

\* blocks that one step of the model enters and leaves: start_downloads (downloads.py
\* 77), add_jobs (118), get_stats called by the event handler (63), the URL
\* processor (186)
LStartDownloads(n) == stats_lock = Free /\ CtlStartDownloads(n, DefaultOptions)
LRetry(ids) == stats_lock = Free /\ CtlRetry(ids)
LHandleEvent == stats_lock = Free /\ CtlHandleEvent
LProbe(u) == stats_lock = Free /\ UProbe(u)

\* a session of one worker, then a retry or a stop, the entering of every lock of
\* _run_download_process and of stop_all_downloads made a step of its own
InitLocks ==
    /\ Constructed(1)
    /\ RunIdle
    /\ LocksFree
    /\ SettingsFromFile(FileWith(1))
    /\ callsLeft = 2
    /\ pendingLimit = MaxPending
    /\ retry_call = NoRetryCall
    /\ ffmpeg_path = TRUE
    /\ pending_download_task = NoTask
    /\ dm_options = NoOptions
    /\ InstallIdle
    /\ canonical = [d \in Deps |-> OldFile]
    /\ installsLeft = 0

NextLocks ==
    \/ \E n \in 1..MaxUrls : LStartDownloads(n)
    \/ \E ids \in SUBSET JobIds : LRetry(ids)
    \/ LHandleEvent
    \/ StopSet
    \/ StopDrainJobs
    \/ StopDrainUrls
    \/ LSnapshotAcquire
    \/ LSnapshot
    \/ LTerminateAcquire
    \/ LTerminate
    \/ LTerminateEnd
    \/ LResetAcquire
    \/ LReset
    \/ \E w \in Workers : WLoop(w)
    \/ \E w \in Workers : WGet(w)
    \/ \E w \in Workers : WGot(w)
    \/ \E w \in Workers : LBuildRaises(w)
    \/ \E w \in Workers : LSpawnAcquire(w)
    \/ \E w \in Workers : LSpawn(w)
    \/ \E w \in Workers : WRead(w)
    \/ \E w \in Workers : WParse(w)
    \/ \E w \in Workers : WWait(w)
    \/ \E w \in Workers : LFinallyAcquire(w)
    \/ \E w \in Workers : LFinally(w)
    \/ \E w \in Workers : LReportAcquire(w)
    \/ \E w \in Workers : LReport(w)
    \/ \E u \in UProcs : ULoop(u)
    \/ \E u \in UProcs : UGet(u)
    \/ \E u \in UProcs : LProbe(u)
    \/ \E u \in UProcs : UTitle(u)
    \/ \E u \in UProcs : UFanout(u)
    \/ MonitorDone

SpecLocks == InitLocks /\ [][NextLocks]_vars

\* ---------------------------------------------------------------- claims
\* C1: at most one `done` event is ever emitted for a given job id, over every
\* interleaving of the workers, stop_all_downloads and a later start_downloads.
C1_AtMostOneDone == \A j \in JobIds : Len(doneLog[j]) <= 1



\* no thread can take a further step: the main thread is idle with no event to handle,
\* every URL processor has ended, every download worker has ended or is blocked in
\* job_queue.get with nothing to take
Quiescent ==
    /\ mainpc = "idle"
    /\ gui_queue = <<>>
    /\ \A u \in UProcs : upc[u] = "dead"
    /\ \A w \in Workers : \/ wpc[w] = "dead"
                          \/ wpc[w] = "get" /\ job_queue = <<>> /\ ~stop_event

\* the ids for which an add_job event was emitted (every created job is announced)
AddedJobs == 1..(nextId - 1)

RECURSIVE SeqToSet(_)
SeqToSet(q) == IF q = <<>> THEN {} ELSE {Head(q)} \cup SeqToSet(Tail(q))

\* C2: every job for which add_job was emitted eventually gets a done event: once
\* the threads have run to the end (under fair scheduling that is the state every
\* run reaches), no announced job that has left the job queue is without a done event.
C2_EveryJobGetsDone ==
    Quiescent => \A j \in AddedJobs \ SeqToSet(job_queue) : doneLog[j] # <<>>


\* C3: completed_jobs <= total_jobs in every reachable state of DownloadManager
C3_CompletedLeTotal == completed_jobs <= total_jobs


\* C4: once a job's status in the controller's job store is terminal, no later event
\* changes the job, so no update_job emitted by a worker is applied after the job's
\* done: in every step, a job run by a worker (not the synthetic job of a URL error,
\* which is announced with a terminal status) that is in the store with a terminal
\* status and is still in the store afterwards keeps its status and progress.
C4_TerminalIsFinal ==
    [][\A i \in DOMAIN job_store : \A k \in DOMAIN job_store' :
          (/\ IsTerminal(job_store[i].status)
           /\ job_store[i].id \notin synthetic
           /\ job_store'[k].id = job_store[i].id)
              => job_store'[k] = job_store[i]]_vars

\* C5: after stop_all_downloads has returned, every job that had a process registered
\* in the active process table when stop was invoked has exactly one done event, and
\* it is done(id, Cancelled).
C5_ActiveEndCancelled ==
    mainpc = "idle" => \A j \in activeAtStop : doneLog[j] = <<"Cancelled">>

C7_CompletedCountsDones == completed_jobs = donesSinceReset

\* C8: in every reachable state of the controller's job store, a job whose status is
\* Completed has progress "100.0%".
C8_CompletedHasFullProgress ==
    \A i \in DOMAIN job_store :
        job_store[i].status = "Completed" => job_store[i].progress = "100.0%"

C10_WorkersWithinLimit == Cardinality(Alive(wpc)) <= max_concurrent_downloads

\* C11: _start_workers is idempotent: a second call right after a first one (no worker
\* having exited in between) starts no worker and leaves the same live workers, for
\* every pool the program reaches and every configured limit.
C11_StartWorkersIdempotent ==
    \A limit \in 1..MaxConcurrent :
        LET once == StartWorkers(wpc, limit)
        IN /\ StartWorkers(once, limit) = once
           /\ Cardinality(Alive(once)) >= Cardinality(Alive(wpc))

\* a pool with one live and one ended worker, where a first _start_workers call with
\* the configured limit starts a worker
C11_Witness ==
    /\ \E w \in Workers : wpc[w] = "dead"
    /\ \E w \in Workers : wpc[w] \notin {"dead", "loop"}
    /\ Alive(StartWorkers(wpc, config_max)) # Alive(wpc)

\* C12: url_processing_done is emitted exactly once for each start_downloads call and
\* only after every URL of the call has been taken from the queue and processed, also
\* when stop_all_downloads drains the URL queue: the waiter thread of a call (one per
\* call) emits the event when its join() returns, and it emits it only when no URL is
\* queued or in processing.
C12_UrlDoneOncePerStart ==
    [][/\ monitors' < monitors => urlDoneEvents' = urlDoneEvents + 1
       /\ urlDoneEvents' > urlDoneEvents =>
             (url_unfinished = 0 /\ url_processing_queue = 0)]_vars

\* C13: when a URL processor has finished one URL, total_jobs has grown by exactly the
\* number of jobs the processor created (announced with add_job) for that URL, whatever
\* the outcome: count 0, count 1, count > 1, a URLExtractionError, a fan-out cut short.
C13_TotalGrowsByJobsCreated == \A u \in UProcs : upc[u] = "loop" => uowed[u] = 0

\* C14: when stop_all_downloads has returned, completed_jobs = total_jobs = 0 and both
\* stay 0 until the next start_downloads (the stop signal stays set until then; there is
\* no add_jobs call in SpecRestart): no worker or URL processor of the stopped session
\* changes a counter afterwards.
C14_CountersStayZeroAfterStop ==
    (stop_event /\ mainpc = "idle") => (completed_jobs = 0 /\ total_jobs = 0)

\* C15: the stop protocol drains both queues: once stop_all_downloads has returned
\* (and until the next start_downloads clears the stop signal) the job queue and the
\* URL queue are empty, so no URL processor of the stopped session has put a further
\* job into the job queue for a later session to execute.
C15_QueuesEmptyAfterStop ==
    (stop_event /\ mainpc = "idle") => (job_queue = <<>> /\ url_processing_queue = 0)

\* C16: for each entry of stop's snapshot the order is: group interrupt first, then
\* the wait of up to 10 s, then the forced group kill, sent only if the wait timed out
\* or the interrupt failed; whatever the outcome (a failing forced kill included)
\* done(Cancelled) is emitted for the entry, the entry is removed from the table, and
\* the loop goes on until the snapshot is exhausted.
C16_StopOrderPerEntry ==
    /\ \A r \in stop_log :
          /\ r.ops \in {<<"interrupt", "wait">>, <<"interrupt", "wait", "kill">>,
                        <<"interrupt", "kill">>}
          /\ (r.ops[Len(r.ops)] = "kill") <=> (~r.interrupted \/ ~r.exited)
          /\ (r.ops[2] = "wait") <=> r.interrupted
          /\ \E i \in DOMAIN doneLog[r.job] : doneLog[r.job][i] = "Cancelled"
          /\ r.job \notin DOMAIN active_processes
    /\ mainpc = "reset" => procs_to_terminate = {}

\* stop has handled a snapshot of two entries: one process had to be killed after the
\* wait timed out, the other was gone, so that the interrupt and the forced kill failed
C16_Witness ==
    /\ mainpc = "reset"
    /\ \E r1, r2 \in stop_log :
          /\ r1.job # r2.job
          /\ r1.ops = <<"interrupt", "wait", "kill">>
          /\ r2.ops = <<"interrupt", "kill">>

\* C17: a request whose options require ffmpeg (audio kind, embed-thumbnail or
\* embed-metadata) while the ffmpeg path is unknown is captured as pending and the
\* orchestrator is not started: DownloadManager never runs a session with such options
\* (no job of the request appears) before ffmpeg is usable.
C17_NoSessionBeforeFfmpeg ==
    (\/ dm_options.download_type = "audio"
     \/ dm_options.embed_thumbnail
     \/ dm_options.embed_metadata) => ffmpeg_path

\* C18: when a request is pending and the ffmpeg install succeeds, the pending task is
\* released and the downloads begin with it: in the step in which ffmpeg becomes
\* known, pending_download_task is emptied and DownloadManager.start_downloads is
\* invoked with the captured urls and options.
C18_PendingReleasedOnInstall ==
    [][(pending_download_task # NoTask /\ ~ffmpeg_path /\ ffmpeg_path') =>
          (/\ pending_download_task' = NoTask
           /\ dm_options' = pending_download_task.options
           /\ url_processing_queue' = url_processing_queue + pending_download_task.n
           /\ monitors' = monitors + 1)]_vars

\* C19: add_jobs_for_retry of a set S of failed jobs removes exactly S from the job
\* store and enqueues |S| jobs, each under a new job id that differs from every id
\* observed before.  (The step of add_jobs_for_retry is the one that shrinks the store
\* and raises total_jobs; the jobs of one session share their options, dm_options.)
C19_RetryEnqueuesNewIds ==
    [][(Len(job_store') < Len(job_store) /\ total_jobs' > total_jobs) =>
          LET S == StoreIds(job_store) \ StoreIds(job_store')
              enqueued == {job_queue'[i] : i \in (Len(job_queue) + 1)..Len(job_queue')}
          IN /\ \A id \in S : StoreGet(job_store, id).status \in FailureStatuses
             /\ job_store' = StoreRemove(job_store, S)
             /\ Len(job_queue') = Len(job_queue) + Cardinality(S)
             /\ Cardinality(enqueued) = Cardinality(S)
             /\ \A id \in enqueued : id \notin AddedJobs]_vars

\* C20: clear_completed_jobs is exact and idempotent: applied to any job store the
\* program reaches it removes precisely the jobs whose status is terminal (Completed,
\* Failed*, Cancelled, Error*), leaves the other jobs in their original order, and a
\* second call right after removes nothing.
C20_ClearExactIdempotent ==
    LET once == ClearCompleted(job_store)
    IN /\ once = SelectSeq(job_store, LAMBDA r : r.status \notin TerminalStatuses)
       /\ ClearCompleted(once) = once

\* a store with a job that ended in an error and a job that is still queued or
\* running: clear_completed_jobs removes the first and keeps the second
C20_Witness ==
    /\ \E i \in DOMAIN job_store : job_store[i].status \in {"Error", "Error: msg"}
    /\ \E i \in DOMAIN job_store : job_store[i].status \in {"Queued", "Downloading"}
    /\ Len(ClearCompleted(job_store)) = 1
    /\ Len(job_store) = 2

\* C21: whenever _download_file_with_progress returns successfully and the server
\* advertised a non-zero content-length, the size of the destination file equals that
\* content-length, on the single-stream and on the chunked path, also when a body
\* stream ends early or a range response carries fewer bytes than requested.
C21_SizeEqualsContentLength ==
    (ipc = "fetched" /\ total_size > 0) => SizeOf(SavePath.segs) = total_size

C23_CancelLeavesCanonical ==
    (ipc = "idle" /\ dep_result = "cancelled") => canonical[idep] = canon_before

\* C24: replacement is atomic: in every intermediate state of an install and after any
\* failed install, the canonical path holds the complete previous file (or none, if
\* there was none) or the complete new file.
C24_AtomicReplace ==
    idep \in Deps =>
        canonical[idep] \in {canon_before,
                             IF idep = "yt-dlp" THEN Data(Body(srv.size)) ELSE Extracted}

\* C25: template validation rejects exactly the templates that lack both %(title)
\* and %(id), contain / \ or .., or are absolute, on every path by which a template
\* reaches the stored settings (load, save_settings): the template of the Settings
\* and the template in the configuration file have %(title) or %(id), contain none
\* of / \ .. and are not absolute.
C25_StoredTemplateValid ==
    LET Acceptable(t) ==
            /\ Contains(t, "%(title)") \/ Contains(t, "%(id)")
            /\ ~Contains(t, "/") /\ ~Contains(t, "\\") /\ ~HasDotDot(t)
            /\ ~IsAbsolute(t)
    IN /\ Acceptable(filename_template)
       /\ config_file.exists => Acceptable(config_file.filename_template)

\* C26: the effective max_concurrent_downloads (the Settings value and
\* DownloadManager.max_concurrent_downloads) is within [1, 20] in every reachable
\* state, after any sequence of loads and save_settings calls with any integer.
C26_MaxConcurrentInRange ==
    /\ 1 <= config_max /\ config_max <= 20
    /\ 1 <= max_concurrent_downloads /\ max_concurrent_downloads <= 20

\* C27: on shutdown, if any job is non-terminal (queued, running, or its URL still
\* being expanded), the stop protocol is driven before the settings are persisted:
\* on_app_closing goes from the idle controller straight to saving the settings only
\* when no such job exists (is_downloading is true whenever one exists, also while
\* total_jobs is still growing during URL expansion).
C27_StopBeforePersist ==
    [][(mainpc = "idle" /\ mainpc' = "closed") =>
          /\ job_queue = <<>>
          /\ \A w \in Workers : wjob[w] = NoJob
          /\ url_processing_queue = 0
          /\ \A u \in UProcs : upc[u] \notin {"probe", "title", "fanout"}]_vars

C29_SyntheticNeverQueued ==
    \A j \in synthetic :
        /\ doneLog[j] = <<"Failed">>
        /\ \A i \in DOMAIN job_queue : job_queue[i] # j
        /\ \A w \in Workers : wjob[w] # j

\* C30: without a cancellation the terminal status is a function of the exit code and
\* the captured ERROR: lines: exit code 0 gives Completed; a non-zero exit code with a
\* captured ERROR: line gives "Failed: " followed by the first 60 characters of the
\* last captured reason; a non-zero exit code without one gives Failed.
C30_StatusFromExitAndError ==
    LET IsError(i) == StartsWith(Strip(stdout[i]), ErrorPrefix)
        errors == {i \in DOMAIN stdout : IsError(i)}
        last == CHOOSE i \in errors : \A k \in errors : k <= i
        reason == Strip(Drop(Strip(stdout[last]), Len(ErrorPrefix)))
    IN line_no > Len(stdout) =>
          final_status = IF return_code = 0 THEN StatusCompleted
                         ELSE IF errors # {} THEN FailedPrefix \o Take(reason, 60)
                         ELSE StatusFailed

\* C31: when launching a job's process fails, the worker's report of that job is a
\* done event with an `Error: <reason>` status, completed_jobs is incremented, no
\* handle of the job is in the active process table, the worker goes back to its
\* loop, and the jobs of the other workers and the job queue are untouched.
C31_LaunchFailureReported ==
    [][\A w \in Workers :
          (/\ wpc[w] = "report"
           /\ wpc'[w] # "report"
           /\ wfinal[w] \in {"Error", "Error: msg"}
           /\ wjob[w] \notin synthetic)
          => /\ gui_queue' = Append(gui_queue, DoneEv(wjob[w], "Error: msg"))
             /\ completed_jobs' = completed_jobs + 1
             /\ wjob[w] \notin DOMAIN active_processes'
             /\ wpc'[w] = "loop"
             /\ job_queue' = job_queue
             /\ \A v \in Workers \ {w} :
                   wjob'[v] = wjob[v] /\ wpc'[v] = wpc[v] /\ proc'[v] = proc[v]]_vars

\* C32: the Cancelled status is authored exclusively by the stop protocol: every step
\* that puts a done event with Cancelled on the GUI queue is a step of
\* stop_all_downloads, never a step of a download worker or of a URL processor.
C32_CancelledByStopOnly ==
    [][LET n == Len(gui_queue)
           appended == IF Len(gui_queue') > n /\ SubSeq(gui_queue', 1, n) = gui_queue
                       THEN SubSeq(gui_queue', n + 1, Len(gui_queue'))
                       ELSE <<>>
       IN (\E i \in DOMAIN appended :
              appended[i].type = "done" /\ appended[i].value = "Cancelled")
          => (mainpc # "idle" /\ wpc' = wpc /\ upc' = upc)]_vars

\* C33: for every total size above the chunking threshold, the 8 byte ranges of the
\* chunked fetch are contiguous, pairwise disjoint, in increasing order, cover
\* exactly [0, size-1], and are of equal length.
C33_EqualRanges ==
    ipc = "chunks" =>
       LET r(i) == ChunkRange(i, total_size)
           len(i) == r(i)[2] - r(i)[1] + 1
       IN /\ r(0)[1] = 0
          /\ r(DOWNLOAD_CHUNKS - 1)[2] = total_size - 1
          /\ \A i \in 0..(DOWNLOAD_CHUNKS - 1) : r(i)[1] <= r(i)[2]
          /\ \A i \in 0..(DOWNLOAD_CHUNKS - 2) : r(i + 1)[1] = r(i)[2] + 1
          /\ \A i, k \in 0..(DOWNLOAD_CHUNKS - 1) : len(i) = len(k)

\* C33 as amended: the 8 byte ranges are contiguous, pairwise disjoint, in increasing
\* order and cover exactly [0, size-1]; the first 7 have size div 8 bytes each and the
\* last one has the size mod 8 remaining bytes in addition.
C33_RangesPartition ==
    ipc = "chunks" =>
       LET r(i) == ChunkRange(i, total_size)
           len(i) == r(i)[2] - r(i)[1] + 1
       IN /\ r(0)[1] = 0
          /\ r(DOWNLOAD_CHUNKS - 1)[2] = total_size - 1
          /\ \A i \in 0..(DOWNLOAD_CHUNKS - 1) : r(i)[1] <= r(i)[2]
          /\ \A i \in 0..(DOWNLOAD_CHUNKS - 2) : r(i + 1)[1] = r(i)[2] + 1
          /\ \A i \in 0..(DOWNLOAD_CHUNKS - 2) : len(i) = total_size \div DOWNLOAD_CHUNKS
          /\ len(DOWNLOAD_CHUNKS - 1) =
                (total_size \div DOWNLOAD_CHUNKS) + (total_size % DOWNLOAD_CHUNKS)

\* all 8 chunk files of a size that is no multiple of 8 were written in full
C33_Witness ==
    /\ ipc = "chunks"
    /\ total_size % DOWNLOAD_CHUNKS # 0
    /\ Len(chunk_files) = DOWNLOAD_CHUNKS
    /\ chunk_raised = {}
    /\ \A i \in 1..DOWNLOAD_CHUNKS :
          chunk_files[i] = <<ChunkRange(i - 1, total_size)>>

\* C34: a fetch that uses the single-stream strategy makes at most 3 GET attempts in
\* total and returns an error after the third failed attempt: when the request of the
\* third attempt (attempt = 2) has raised, no further GET attempt is started.
C34_AtMostThreeAttempts ==
    [][~(/\ ipc \in {"single", "stream"}
         /\ attempt = DOWNLOAD_RETRY_ATTEMPTS - 1
         /\ ipc' = "single"
         /\ <<attempt', fallback'>> # <<attempt, fallback>>)]_vars

\* C35: when the cancel signal is raised during a fetch, the fetch ends with a
\* cancellation error and the partial destination file is deleted: once an install
\* has ended as cancelled, its save_path holds no downloaded bytes.
C35_CancelDeletesPartial ==
    (ipc = "idle" /\ dep_result = "cancelled") => SavePath.kind # "data"

\* C36: no thread holds the statistics lock and the active-process lock at the same
\* time, and completed_jobs is incremented for a job only when the job's handle has
\* been removed from active_processes: a worker that is about to count its job, or
\* is inside the statistics block, has no handle registered.
C36_LocksNeverNested ==
    /\ \A t \in Workers \cup {MainThread} :
          ~(stats_lock = t /\ active_processes_lock = t)
    /\ \A w \in Workers :
          wpc[w] = "report" => wjob[w] \notin DOMAIN active_processes

\* a worker that had registered a process is inside the statistics block while the
\* main thread holds the active-process lock
C36_Witness ==
    \E w \in Workers :
        /\ stats_lock = w
        /\ wpc[w] = "report"
        /\ wfinal[w] = "Completed"
        /\ active_processes_lock = MainThread

\* C37: for a single job, the progress values emitted as update_job(progress) from
\* the parsing of stdout are monotonically non-decreasing, whatever PROGRESS:: and
\* [download] NN.N% lines the process prints.
C37_ProgressMonotonic ==
    \A i, j \in DOMAIN emitted : i <= j => emitted[i] <= emitted[j]

\* C38: a cancel_download issued at any moment between the request of a dependency
\* install and its completion is observed: an install during which cancel_download
\* was called ends with the cancelled-by-user dependency_done event.
C38_CancelObserved ==
    (ipc = "idle" /\ dep_result # "none" /\ cancel_issued) => dep_result = "cancelled"

C40_RetryIgnoresAbsent ==
    [][retry_call' # retry_call =>
          LET ids == retry_call'.ids
              present == {ids[i] : i \in DOMAIN ids} \cap StoreIds(job_store)
          IN /\ ~retry_call'.raised
             /\ StoreIds(job_store') = StoreIds(job_store) \ present
             /\ ~stop_event => job_queue' = job_queue \o PresentIds(job_store, ids)]_vars

====
